---------------------------- MODULE Spec2Model ----------------------------
(***************************************************************************)
(* A model of DeepSearch's indexing pipeline: the watcher                  *)
(* (indexing/watcher.py), the job queue and the managers                   *)
(* (indexing/manager.py, indexing/enhanced_manager.py), the keyword index  *)
(* (indexing/indexer.py) and the vector index (ai/embedding_db.py,         *)
(* ai/chunking.py).                                                        *)
(*                                                                         *)
(* Paths are sequences of path segments.  Texts are sequences of           *)
(* characters.  The keyword index is a bag of documents (Whoosh's          *)
(* add_document appends a document without looking at unique fields; only  *)
(* update_document and delete_by_term look a path up).                     *)
(***************************************************************************)
EXTENDS Naturals, Integers, Sequences, FiniteSets, Bags, TLC

(***************************************************************************)
(* Bounds of the model.                                                    *)
(***************************************************************************)
\* capacity of the job queue (asyncio.Queue(maxsize=10000) in the source)
QueueMax == 2
\* jobs created in one behaviour (bulk scan and watcher together)
MaxJobs == 4
\* native file-system events delivered to the watcher in one behaviour
MaxEvents == 1
\* changes of the file system in one behaviour
MaxFsOps == 1
\* injected index-write failures in one behaviour
MaxFaults == 1
\* calls of bulk_index in one behaviour
MaxBulk == 1

(***************************************************************************)
(* The file system.  The directory l is a symbolic link to the directory   *)
(* r, so l/... and r/... name the same files; Path.resolve() maps the      *)
(* former to the latter.  The directory g is a symbolic link to r/.git.    *)
(***************************************************************************)
FileA == <<"r", "a.txt">>
FileB == <<"r", "d", "b.txt">>
Files == {FileA, FileB}
\* a file under a directory whose name is in excluded_dirs
FileC == <<"r", ".git", "c.txt">>

Resolve(p) ==
    IF p # <<>> /\ Head(p) = "l" THEN <<"r">> \o Tail(p)
    ELSE IF p # <<>> /\ Head(p) = "g" THEN <<"r", ".git">> \o Tail(p)
    ELSE p

\* every path under which a file of the model can be named
RawPaths == Files \cup {<<"l">> \o Tail(f) : f \in Files}

\* the directories a bulk scan can be given as a root
Roots == {<<"r">>, <<"r", "d">>, <<"l">>}
\* root lists: single roots, a root given twice, a root and a directory under it
RootLists ==
    {<<a>> : a \in Roots} \cup {<<<<"r", "d">>, <<"r", "d">>>>, <<<<"r">>, <<"r", "d">>>>}

\* file contents
Texts == {<<>>, <<"x">>, <<"x", " ", "y">>}

excluded_dirs == {".git", "__pycache__", "node_modules"}
excluded_extensions == {".tmp", ".log"}
\* sizes are counted in characters of the model's texts
max_file_size == 3

\* Path.suffix: the last component's text from its last dot on, none for a
\* name that only starts with a dot
Suffix(p) ==
    LET name == p[Len(p)]
    IN  CASE name \in {"a.txt", "b.txt", "c.txt"} -> ".txt"
          [] name \in {"x.log"} -> ".log"
          [] name \in {"X.LOG"} -> ".LOG"
          [] name \in {"a.txt.tmp"} -> ".tmp"
          [] OTHER -> ""

\* str.lower() on the suffixes of the model
Lower(ext) == IF ext = ".LOG" THEN ".log" ELSE ext

IsPrefix(s, t) == Len(s) <= Len(t) /\ SubSeq(t, 1, Len(s)) = s

VARIABLES
    fs,             \* the file system: canonical file -> its text, for files that exist
    events,         \* watchdog's event queue: native events not yet dispatched
    tasks,          \* _add_to_queue tasks created on the event loop, not yet run
    putters,        \* _add_to_queue tasks waiting in indexing_queue.put for room
    queue,          \* indexing_queue: asyncio.Queue, in order of put
    unfinished,     \* indexing_queue's count of unfinished tasks (put minus task_done)
    is_running,     \* SmartFileIndexer.is_running
    monitoring,     \* the watchdog observer thread is running
    workerPc,       \* process_queue: "none" (never started), "get", "extracting", "exited"
    cur,            \* the job process_file is working on while it awaits extraction
    indexed_files,  \* SmartFileIndexer.indexed_files
    stats,          \* SmartFileIndexer.stats counters
    kw,             \* the keyword index: a bag of documents
    vmeta,          \* the chunk_metadata table
    vstore,         \* the embedding store: the ref docs inserted in the vector index
    bulkPc,         \* bulk_index: "idle", "put", "join", "done"
    bulkRoots,      \* bulk_index's root_paths
    bulkTodo,       \* the part of all_files not yet put on the queue
    stopPc,         \* stop: "idle", "join_wait", "closed", "raised"
    enhanced,       \* the manager is an EnhancedIndexingManager with a vector database
    clock,          \* the number of jobs created so far (datetime.now() of the next job)
    nEvents,        \* native events delivered so far
    fsOps,          \* file-system changes so far
    faults,         \* index-write failures injected so far
    bulkRuns,       \* calls of bulk_index so far
    call            \* the last direct call of the search or store interface: its
                    \* arguments and what it returned

ixVars == <<indexed_files, stats, kw, vmeta, vstore>>
queueVars == <<queue, unfinished>>
workerVars == <<workerPc, cur>>
bulkVars == <<bulkPc, bulkRoots, bulkTodo, bulkRuns>>
watchVars == <<events, tasks, putters, nEvents>>
vars == <<fs, events, tasks, putters, queue, unfinished, is_running, monitoring, workerPc,
          cur, indexed_files, stats, kw, vmeta, vstore, bulkPc, bulkRoots,
          bulkTodo, stopPc, enhanced, clock, nEvents, fsOps, faults,
          bulkRuns, call>>

(***************************************************************************)
(* models.py                                                               *)
(***************************************************************************)
IMMEDIATE == 0
HIGH == 1
NORMAL == 2
LOW == 3

IndexingJob(p, prio, op, ts) ==
    [file_path |-> p, priority |-> prio, operation |-> op, timestamp |-> ts]

(***************************************************************************)
(* utils/file_utils.py                                                     *)
(***************************************************************************)
Exists(fsys, p) == Resolve(p) \in DOMAIN fsys

\* what os.stat answers: a size, or an OSError with its errno
StatOk(size) == [errno |-> "none", st_size |-> size]
StatError(errno) == [errno |-> errno, st_size |-> 0]
\* the errnos Path.exists() takes for "no such file": ENOENT, ENOTDIR, EBADF, ELOOP
IgnoredErrnos == {"ENOENT"}

\* Path.exists(): stat succeeds -> True; an ignored errno -> False; any other
\* OSError (EACCES on a directory of the path, ENAMETOOLONG, ...) is raised again
path_exists(st) ==
    IF st.errno = "none" THEN "true"
    ELSE IF st.errno \in IgnoredErrnos THEN "false"
    ELSE "raises"

\* should_index_file, given what the stat inside path.exists() and the later
\* path.stat() answer: "true", "false", or "raises" when an exception leaves it
should_index(parts, exists_stat, size_stat) ==
    IF path_exists(exists_stat) = "raises" THEN "raises"
    ELSE IF path_exists(exists_stat) = "false" THEN "false"
    ELSE IF Lower(Suffix(parts)) \in excluded_extensions THEN "false"
    ELSE IF \E excluded_dir \in excluded_dirs :
                \E i \in 1..Len(parts) : parts[i] = excluded_dir THEN "false"
    ELSE IF size_stat.errno # "none" THEN "false"
    ELSE IF size_stat.st_size > max_file_size THEN "false"
    ELSE "true"

\* os.stat on the model's file system, where a file is there or is not
Stat(fsys, p) ==
    IF Exists(fsys, p) THEN StatOk(Len(fsys[Resolve(p)])) ELSE StatError("ENOENT")

should_index_file(fsys, p) == should_index(p, Stat(fsys, p), Stat(fsys, p)) = "true"


(***************************************************************************)
(* ai/chunking.py                                                          *)
(***************************************************************************)
IsSpace(c) == c = " "

RECURSIVE StripLeft(_)
StripLeft(s) == IF s # <<>> /\ IsSpace(Head(s)) THEN StripLeft(Tail(s)) ELSE s

RECURSIVE StripRight(_)
StripRight(s) ==
    IF s # <<>> /\ IsSpace(s[Len(s)]) THEN StripRight(SubSeq(s, 1, Len(s) - 1)) ELSE s

\* str.strip()
Strip(s) == StripRight(StripLeft(s))

\* re.sub(r"\s+", " ", content): every run of whitespace becomes one space
RECURSIVE CollapseSpaces(_)
CollapseSpaces(s) ==
    IF s = <<>> THEN <<>>
    ELSE IF IsSpace(Head(s))
         THEN <<" ">> \o CollapseSpaces(StripLeft(s))
         ELSE <<Head(s)>> \o CollapseSpaces(Tail(s))

_clean_content(content) == Strip(CollapseSpaces(content))

\* the splitter, with separator " " and a chunk size of one word: the
\* cleaned text cut at its spaces
RECURSIVE split_text(_, _)
split_text(s, word) ==
    IF s = <<>> THEN (IF word = <<>> THEN <<>> ELSE <<word>>)
    ELSE IF IsSpace(Head(s))
         THEN (IF word = <<>> THEN <<>> ELSE <<word>>) \o split_text(Tail(s), <<>>)
         ELSE split_text(Tail(s), Append(word, Head(s)))

DocumentChunk(source, i, text) ==
    [chunk_id |-> <<source, i>>, source_path |-> source, chunk_index |-> i,
     text |-> text]

\* the list of chunks of a content; chunk indices start at 0
chunk_document(content, source) ==
    IF content = <<>> \/ Strip(content) = <<>> THEN <<>>
    ELSE LET text_chunks == split_text(_clean_content(content), <<>>)
         IN  [i \in 1..Len(text_chunks) |->
                 DocumentChunk(source, i - 1, Strip(text_chunks[i]))]

Range(s) == {s[i] : i \in DOMAIN s}

(***************************************************************************)
(* indexing/indexer.py: the keyword index.  A document carries the path    *)
(* of its metadata (the resolved path) and the content it was indexed      *)
(* with.  A write that raises leaves the index as it was and returns       *)
(* False.                                                                  *)
(***************************************************************************)
Document(p, content) == [path |-> Resolve(p), content |-> content]

\* the documents stored under a path, as a bag
DocsOf(index, p) == [d \in {e \in DOMAIN index : e.path = p} |-> index[d]]
DocsNotOf(index, p) == [d \in {e \in DOMAIN index : e.path # p} |-> index[d]]
doc_count(index) == BagCardinality(index)

\* writer.add_document: appends, whatever the index already holds
add_document(index, p, content, raises) ==
    IF raises THEN [ix |-> index, ok |-> FALSE]
    ELSE [ix |-> index (+) SetToBag({Document(p, content)}), ok |-> TRUE]

\* writer.update_document: deletes the documents with the same unique
\* field (path), then adds
update_document(index, p, content, raises) ==
    IF raises THEN [ix |-> index, ok |-> FALSE]
    ELSE [ix |-> DocsNotOf(index, Resolve(p)) (+) SetToBag({Document(p, content)}),
          ok |-> TRUE]

\* a delete that removes one document of the path and leaves its duplicates
delete_first_document(index, p, raises) ==
    IF raises \/ BagCardinality(DocsOf(index, p)) = 0 THEN [ix |-> index, ok |-> FALSE]
    ELSE [ix |-> index (-) SetToBag({CHOOSE d \in DOMAIN DocsOf(index, p) : TRUE}),
          ok |-> TRUE]

\* writer.delete_by_term("path", file_path): the path is used as given
delete_document(index, p, raises) ==
    IF raises THEN [ix |-> index, ok |-> FALSE]
    ELSE [ix |-> DocsNotOf(index, p), ok |-> BagCardinality(DocsOf(index, p)) > 0]

(***************************************************************************)
(* ai/embedding_db.py: the vector database, a pair of stores.              *)
(***************************************************************************)
VecDb(meta, store) == [meta |-> meta, store |-> store]

\* INSERT OR REPLACE keyed by chunk_id
_store_chunk_metadata(meta, chunk) ==
    {r \in meta : r.chunk_id # chunk.chunk_id} \cup {chunk}

RECURSIVE StoreAll(_, _)
StoreAll(meta, chunks) ==
    IF chunks = <<>> THEN meta
    ELSE StoreAll(_store_chunk_metadata(meta, Head(chunks)), Tail(chunks))

\* what can go wrong in a call of add_chunks: nothing; index.insert raises at
\* the chunk numbered `at` (its embedding or its insertion fails); the
\* INSERT of the metadata row of chunk `at` fails; persist raises
NoFailure == [step |-> "none", at |-> 0]
Failure(step, at) == [step |-> step, at |-> at]
FailuresOf(chunks) ==
    {NoFailure, Failure("persist", 0)}
        \cup {Failure(step, at) : step \in {"insert", "metadata"}, at \in 1..Len(chunks)}

\* the sequence without its element numbered at
Without(seq, at) == SubSeq(seq, 1, at - 1) \o SubSeq(seq, at + 1, Len(seq))

\* add_chunks: the chunks are inserted in the vector index one after the
\* other, then every chunk's metadata row is stored, then the index is
\* persisted.  An exception of index.insert ends the call with False: the
\* chunks inserted before it stay in the index and no row is stored.
\* _store_chunk_metadata logs its own exception, so the call goes on without
\* that row and returns True.  An exception of persist ends the call with
\* False after everything was stored.
add_chunks_failing(db, chunks, failure) ==
    IF chunks = <<>> THEN [db |-> db, ok |-> TRUE]
    ELSE CASE failure.step = "insert" ->
                [db |-> VecDb(db.meta,
                              db.store \cup Range(SubSeq(chunks, 1, failure.at - 1))),
                 ok |-> FALSE]
           [] failure.step = "metadata" ->
                [db |-> VecDb(StoreAll(db.meta, Without(chunks, failure.at)),
                              db.store \cup Range(chunks)),
                 ok |-> TRUE]
           [] failure.step = "persist" ->
                [db |-> VecDb(StoreAll(db.meta, chunks), db.store \cup Range(chunks)),
                 ok |-> FALSE]
           [] failure.step = "none" ->
                [db |-> VecDb(StoreAll(db.meta, chunks), db.store \cup Range(chunks)),
                 ok |-> TRUE]

\* add_chunks in the pipeline: when it raises, index.insert raises at the last
\* chunk of the call
add_chunks(db, chunks, raises) ==
    add_chunks_failing(db, chunks,
                       IF raises THEN Failure("insert", Len(chunks)) ELSE NoFailure)

\* delete_document_chunks: the chunk ids are read from chunk_metadata by
\* source_path; those ref docs leave the vector index, the rows leave the table
delete_document_chunks(db, source) ==
    LET chunk_ids == {r.chunk_id : r \in {m \in db.meta : m.source_path = source}}
    IN  IF chunk_ids = {} THEN [db |-> db, ok |-> TRUE]
        ELSE [db |-> VecDb({r \in db.meta : r.source_path # source},
                           {r \in db.store : r.chunk_id \notin chunk_ids}),
              ok |-> TRUE]

ChunksOf(meta, source) == {r \in meta : r.source_path = source}

(***************************************************************************)
(* indexing/manager.py and indexing/enhanced_manager.py: process_file.     *)
(* An index state is a record of the keyword index, the vector database,   *)
(* indexed_files and the stats counters.  fault names the write that       *)
(* raises while the job is processed: "none", "kw" (the keyword writer) or *)
(* "embed" (inserting in the vector index).                                *)
(***************************************************************************)
IxState(index, db, indexed, counters) ==
    [kw |-> index, db |-> db, indexed |-> indexed, stats |-> counters]

NoStats == [files_processed |-> 0, files_skipped |-> 0, files_failed |-> 0]
EmptyIx == IxState(EmptyBag, VecDb({}, {}), {}, NoStats)

\* SmartFileIndexer.process_file, operation == "delete"
process_file_delete(S, p, fault) ==
    LET r == delete_document(S.kw, p, fault = "kw")
    IN  [S EXCEPT !.kw = r.ix,
                  !.indexed = IF r.ok THEN @ \ {p} ELSE @]

\* EnhancedIndexingManager.process_file, operation == "delete"
enhanced_process_file_delete(S, p, fault) ==
    LET r == delete_document(S.kw, p, fault = "kw")
        v == delete_document_chunks(S.db, p)
    IN  [S EXCEPT !.kw = r.ix,
                  !.db = v.db,
                  !.indexed = IF r.ok /\ v.ok THEN @ \ {p} ELSE @]

\* the keyword write of a create or update job: add for a create job or a
\* path not in indexed_files, update otherwise
keyword_write(S, p, op, content, fault) ==
    IF op = "create" \/ p \notin S.indexed
    THEN add_document(S.kw, p, content, fault = "kw")
    ELSE update_document(S.kw, p, content, fault = "kw")

\* SmartFileIndexer.process_file after extraction
process_file_write(S, p, op, content, fault) ==
    LET r == keyword_write(S, p, op, content, fault)
        added == op = "create" \/ p \notin S.indexed
    IN  [S EXCEPT !.kw = r.ix,
                  !.indexed = IF added /\ r.ok THEN @ \cup {p} ELSE @,
                  !.stats.files_processed = IF r.ok THEN @ + 1 ELSE @]

\* the vector step of _process_file_enhanced: skipped for empty or blank
\* content; otherwise delete the path's chunks, chunk, add
vector_write(db, p, content, fault) ==
    IF content # <<>> /\ Strip(content) # <<>>
    THEN LET d == delete_document_chunks(db, p)
             chunks == chunk_document(content, p)
         IN  IF chunks # <<>> THEN add_chunks(d.db, chunks, fault = "embed").db
             ELSE d.db
    ELSE db

\* a manager whose keyword failure ends the job before the vector step
_process_file_enhanced_aborting(S, p, op, content, fault) ==
    LET r == keyword_write(S, p, op, content, fault)
    IN  IF r.ok
        THEN [S EXCEPT !.kw = r.ix,
                       !.db = vector_write(S.db, p, content, fault),
                       !.indexed = @ \cup {p},
                       !.stats.files_processed = @ + 1]
        ELSE [S EXCEPT !.stats.files_failed = @ + 1]

\* EnhancedIndexingManager._process_file_enhanced after extraction
_process_file_enhanced(S, p, op, content, fault) ==
    LET r == keyword_write(S, p, op, content, fault)
    IN  [S EXCEPT !.kw = r.ix,
                  !.db = vector_write(S.db, p, content, fault),
                  !.indexed = IF r.ok THEN @ \cup {p} ELSE @,
                  !.stats.files_processed = IF r.ok THEN @ + 1 ELSE @,
                  !.stats.files_failed = IF r.ok THEN @ ELSE @ + 1]

\* TextExtractor.extract_text: the file's text, or "" when reading fails
extract_text(fsys, p) == IF Exists(fsys, p) THEN fsys[Resolve(p)] ELSE <<>>

Cur == IxState(kw, VecDb(vmeta, vstore), indexed_files, stats)

SetIx(S) ==
    /\ kw' = S.kw
    /\ vmeta' = S.db.meta
    /\ vstore' = S.db.store
    /\ indexed_files' = S.indexed
    /\ stats' = S.stats

Faults == {"none", "kw", "embed"}

\* whether a fault can occur in processing the job at all
FaultApplies(fault, op, p, content) ==
    CASE fault = "none" -> TRUE
      [] fault = "kw" -> TRUE
      [] fault = "embed" -> enhanced /\ op # "delete" /\ chunk_document(content, p) # <<>>

CountFault(fault) ==
    /\ fault # "none" => faults < MaxFaults
    /\ faults' = IF fault = "none" THEN faults ELSE faults + 1

(***************************************************************************)
(* The state after construction.                                           *)
(***************************************************************************)
\* at the start each file is absent or holds a two-word text
\* no direct call has been made
NoCall == [fn |-> "none"]

InitTexts == {<<"x", " ", "y">>}
FileSystems == UNION {[S -> InitTexts] : S \in SUBSET Files}

\* the manager after construction
InitManager ==
    /\ events = <<>>
    /\ tasks = <<>>
    /\ putters = <<>>
    /\ queue = <<>>
    /\ unfinished = 0
    /\ is_running = FALSE
    /\ monitoring = FALSE
    /\ workerPc = "none"
    /\ cur = <<>>
    /\ indexed_files = {}
    /\ stats = NoStats
    /\ kw = EmptyBag
    /\ vmeta = {}
    /\ vstore = {}
    /\ bulkPc = "idle"
    /\ bulkRoots = <<>>
    /\ bulkTodo = <<>>
    /\ stopPc = "idle"
    /\ enhanced \in BOOLEAN
    /\ clock = 0
    /\ nEvents = 0
    /\ fsOps = 0
    /\ faults = 0
    /\ bulkRuns = 0
    /\ call = NoCall

Init ==
    /\ fs \in FileSystems
    /\ InitManager

(***************************************************************************)
(* The environment: files are written and removed.                         *)
(***************************************************************************)
WriteFile ==
    \E f \in Files, t \in Texts :
        /\ fsOps < MaxFsOps
        /\ (f \in DOMAIN fs => fs[f] # t)
        /\ fs' = [g \in DOMAIN fs \cup {f} |-> IF g = f THEN t ELSE fs[g]]
        /\ fsOps' = fsOps + 1
        /\ UNCHANGED <<call, watchVars, queueVars, is_running, monitoring, workerVars,
                       ixVars, bulkVars, stopPc, enhanced, clock, faults>>

RemoveFile ==
    \E f \in DOMAIN fs :
        /\ fsOps < MaxFsOps
        /\ fs' = [g \in DOMAIN fs \ {f} |-> fs[g]]
        /\ fsOps' = fsOps + 1
        /\ UNCHANGED <<call, watchVars, queueVars, is_running, monitoring, workerVars,
                       ixVars, bulkVars, stopPc, enhanced, clock, faults>>

(***************************************************************************)
(* indexing/watcher.py.  A native event is delivered either by watchdog's  *)
(* observer thread (on_loop = FALSE), which start_monitoring sets up, or   *)
(* by a caller on the event loop's thread (on_loop = TRUE).                *)
(* asyncio.create_task needs a running loop in the calling thread: on the  *)
(* observer thread it raises RuntimeError and no task is created.          *)
(***************************************************************************)
MaxPending == 1

EventPaths == {FileA, <<"l", "a.txt">>}
Dirs == {<<"r", "d">>}

FileEvents ==
    {[event_type |-> t, src_path |-> p, dest_path |-> <<>>, is_directory |-> FALSE]
        : t \in {"created", "modified", "deleted"}, p \in EventPaths}
    \cup {[event_type |-> "moved", src_path |-> p, dest_path |-> q,
           is_directory |-> FALSE] : p \in {FileA}, q \in {FileB}}

DirEvents ==
    {[event_type |-> t, src_path |-> p, dest_path |-> <<>>, is_directory |-> TRUE]
        : t \in {"created", "modified", "deleted"}, p \in Dirs}
    \cup {[event_type |-> "moved", src_path |-> p, dest_path |-> <<"r", "e">>,
           is_directory |-> TRUE] : p \in Dirs}

NativeEvents == FileEvents \cup DirEvents

\* the (path, operation) pairs a handler passes to _add_to_queue, in order
on_created(ev) == IF ~ev.is_directory THEN <<<<ev.src_path, "create">>>> ELSE <<>>
on_modified(ev) == IF ~ev.is_directory THEN <<<<ev.src_path, "update">>>> ELSE <<>>
on_deleted(ev) == IF ~ev.is_directory THEN <<<<ev.src_path, "delete">>>> ELSE <<>>
on_moved(ev) ==
    IF ~ev.is_directory
    THEN <<<<ev.src_path, "delete">>, <<ev.dest_path, "create">>>>
    ELSE <<>>

dispatch(ev) ==
    CASE ev.event_type = "created" -> on_created(ev)
      [] ev.event_type = "modified" -> on_modified(ev)
      [] ev.event_type = "deleted" -> on_deleted(ev)
      [] ev.event_type = "moved" -> on_moved(ev)

\* the tasks the handler creates: none when create_task raises
created_tasks(ev, on_loop, now) ==
    IF on_loop
    THEN [i \in 1..Len(dispatch(ev)) |->
             IndexingJob(dispatch(ev)[i][1], HIGH, dispatch(ev)[i][2], now + i - 1)]
    ELSE <<>>

\* the file system reports an event to the observer
EventArrivesOf(native) ==
    \E ev \in native, on_loop \in BOOLEAN :
        /\ monitoring
        /\ Len(events) < MaxPending
        /\ nEvents < MaxEvents
        /\ clock + 2 <= MaxJobs
        /\ events' = Append(events, [ev |-> ev, on_loop |-> on_loop])
        /\ nEvents' = nEvents + 1
        /\ UNCHANGED <<call, fs, tasks, putters, queueVars, is_running, monitoring,
                       workerVars, ixVars, bulkVars, stopPc, enhanced, clock, fsOps,
                       faults>>

EventArrives == EventArrivesOf(NativeEvents)

\* the handler runs for the oldest event
Dispatch ==
    /\ events # <<>>
    /\ LET e == Head(events)
           new == created_tasks(e.ev, e.on_loop, clock)
       IN  /\ tasks' = tasks \o new
           /\ clock' = clock + Len(new)
    /\ events' = Tail(events)
    /\ UNCHANGED <<call, fs, putters, queueVars, is_running, monitoring, workerVars, ixVars,
                   bulkVars, stopPc, enhanced, nEvents, fsOps, faults>>

\* a queue that orders its jobs by priority: the job is put before the waiting
\* jobs of lower priority (a greater number)
TaskRunByPriority ==
    /\ tasks # <<>>
    /\ IF Len(queue) < QueueMax
       THEN /\ queue' = SelectSeq(queue, LAMBDA j : j.priority <= Head(tasks).priority)
                        \o <<Head(tasks)>>
                        \o SelectSeq(queue, LAMBDA j : j.priority > Head(tasks).priority)
            /\ unfinished' = unfinished + 1
            /\ putters' = putters
       ELSE /\ putters' = Append(putters, Head(tasks))
            /\ UNCHANGED queueVars
    /\ tasks' = Tail(tasks)
    /\ UNCHANGED <<call, fs, events, nEvents, is_running, monitoring, workerVars, ixVars,
                   bulkVars, stopPc, enhanced, clock, fsOps, faults>>

\* _add_to_queue runs: indexing_queue.put(job) puts the job when the queue has
\* room and waits otherwise; asyncio.Queue.put does not raise when the queue is full
TaskRun ==
    /\ tasks # <<>>
    /\ IF Len(queue) < QueueMax
       THEN /\ queue' = Append(queue, Head(tasks))
            /\ unfinished' = unfinished + 1
            /\ putters' = putters
       ELSE /\ putters' = Append(putters, Head(tasks))
            /\ UNCHANGED queueVars
    /\ tasks' = Tail(tasks)
    /\ UNCHANGED <<call, fs, events, nEvents, is_running, monitoring, workerVars, ixVars,
                   bulkVars, stopPc, enhanced, clock, fsOps, faults>>

\* a waiting put is woken once the queue has room, and puts its job
PutterWake ==
    /\ putters # <<>>
    /\ Len(queue) < QueueMax
    /\ queue' = Append(queue, Head(putters))
    /\ unfinished' = unfinished + 1
    /\ putters' = Tail(putters)
    /\ UNCHANGED <<call, fs, events, tasks, nEvents, is_running, monitoring, workerVars,
                   ixVars, bulkVars, stopPc, enhanced, clock, fsOps, faults>>

(***************************************************************************)
(* indexing/manager.py: bulk_index.                                        *)
(***************************************************************************)
\* os.walk lists a directory's files before it descends
WalkOrder ==
    <<FileA, <<"l", "a.txt">>, FileB, <<"l", "d", "b.txt">>, FileC, <<"g", "c.txt">>>>

\* the files os.walk(root) reaches, directories in excluded_dirs pruned
Walk(fsys, root) ==
    SelectSeq(WalkOrder,
              LAMBDA p : /\ IsPrefix(root, p)
                         /\ Len(root) < Len(p)
                         /\ Exists(fsys, p)
                         /\ \A i \in (Len(root) + 1)..(Len(p) - 1) :
                                p[i] \notin excluded_dirs)

RECURSIVE all_files(_, _)
all_files(fsys, roots) ==
    IF roots = <<>> THEN <<>>
    ELSE SelectSeq(Walk(fsys, Head(roots)), LAMBDA p : should_index_file(fsys, p))
         \o all_files(fsys, Tail(roots))

Min(a, b) == IF a <= b THEN a ELSE b

\* the puts of bulk_index that go through without waiting: the queue takes
\* jobs until it is full
BulkPuts(files) ==
    LET n == Min(Len(files), QueueMax - Len(queue))
    IN  /\ queue' = queue \o [i \in 1..n |->
                                 IndexingJob(files[i], LOW, "create", clock + i - 1)]
        /\ unfinished' = unfinished + n
        /\ clock' = clock + n
        /\ bulkTodo' = SubSeq(files, n + 1, Len(files))
        /\ bulkPc' = IF n = Len(files) THEN "join" ELSE "put"

BulkIndexOf(rootLists) ==
    \E roots \in rootLists :
        LET found == all_files(fs, roots)
        IN  /\ bulkPc \in {"idle", "done"}
            /\ stopPc = "idle"
            /\ bulkRuns < MaxBulk
            /\ clock + Len(found) <= MaxJobs
            /\ bulkRuns' = bulkRuns + 1
            /\ bulkRoots' = roots
            /\ IF found = <<>>
               THEN /\ bulkPc' = "done"
                    /\ bulkTodo' = <<>>
                    /\ UNCHANGED <<queueVars, clock>>
               ELSE BulkPuts(found)
            /\ UNCHANGED <<call, fs, watchVars, is_running, monitoring, workerVars, ixVars,
                           stopPc, enhanced, fsOps, faults>>

BulkIndex == BulkIndexOf(RootLists)

\* a put that waited for room goes through, and the ones after it
BulkPut ==
    /\ bulkPc = "put"
    /\ Len(queue) < QueueMax
    /\ BulkPuts(bulkTodo)
    /\ UNCHANGED <<call, fs, watchVars, is_running, monitoring, workerVars, ixVars,
                   bulkRoots, bulkRuns, stopPc, enhanced, fsOps, faults>>

\* await indexing_queue.join() returns
BulkJoin ==
    /\ bulkPc = "join"
    /\ unfinished = 0
    /\ bulkPc' = "done"
    /\ UNCHANGED <<call, fs, watchVars, queueVars, is_running, monitoring, workerVars,
                   ixVars, bulkRoots, bulkTodo, bulkRuns, stopPc,
                   enhanced, clock, fsOps, faults>>

(***************************************************************************)
(* indexing/manager.py: start, process_queue, stop.                        *)
(***************************************************************************)
Start ==
    /\ workerPc = "none"
    /\ stopPc = "idle"
    /\ is_running' = TRUE
    /\ workerPc' = "get"
    /\ monitoring' = TRUE
    /\ UNCHANGED <<call, fs, watchVars, queueVars, cur, ixVars, bulkVars, stopPc,
                   enhanced, clock, fsOps, faults>>

\* where process_queue goes after a job: the test of `while self.is_running`
LoopTest == IF is_running THEN "get" ELSE "exited"

\* a delete job is taken and processed
DequeueDelete ==
    /\ workerPc = "get"
    /\ queue # <<>>
    /\ Head(queue).operation = "delete"
    /\ \E fault \in {"none", "kw"} :
           /\ CountFault(fault)
           /\ SetIx(IF enhanced
                    THEN enhanced_process_file_delete(Cur, Head(queue).file_path, fault)
                    ELSE process_file_delete(Cur, Head(queue).file_path, fault))
    /\ queue' = Tail(queue)
    /\ unfinished' = unfinished - 1
    /\ workerPc' = LoopTest
    /\ UNCHANGED <<call, fs, watchVars, is_running, monitoring, cur, bulkVars, stopPc,
                   enhanced, clock, fsOps>>

\* a create or update job is taken and should_index_file rejects its path
DequeueSkip ==
    /\ workerPc = "get"
    /\ queue # <<>>
    /\ Head(queue).operation # "delete"
    /\ ~should_index_file(fs, Head(queue).file_path)
    /\ stats' = [stats EXCEPT !.files_skipped = @ + 1]
    /\ queue' = Tail(queue)
    /\ unfinished' = unfinished - 1
    /\ workerPc' = LoopTest
    /\ UNCHANGED <<call, fs, watchVars, is_running, monitoring, cur, indexed_files, kw,
                   vmeta, vstore, bulkVars, stopPc, enhanced, clock, fsOps, faults>>

\* a consumer that takes the next create or update job without waiting for the
\* job it handed to the executor: what process_queue would do if it did not
\* await process_file
DequeueExtractWhileBusy ==
    /\ workerPc \in {"get", "extracting"}
    /\ queue # <<>>
    /\ Head(queue).operation # "delete"
    /\ should_index_file(fs, Head(queue).file_path)
    /\ cur' = Append(cur, Head(queue))
    /\ queue' = Tail(queue)
    /\ workerPc' = "extracting"
    /\ UNCHANGED <<call, fs, watchVars, unfinished, is_running, monitoring, ixVars,
                   bulkVars, stopPc, enhanced, clock, fsOps, faults>>

\* a create or update job is taken and handed to the executor for extraction
DequeueExtract ==
    /\ workerPc = "get"
    /\ queue # <<>>
    /\ Head(queue).operation # "delete"
    /\ should_index_file(fs, Head(queue).file_path)
    /\ cur' = <<Head(queue)>>
    /\ queue' = Tail(queue)
    /\ workerPc' = "extracting"
    /\ UNCHANGED <<call, fs, watchVars, unfinished, is_running, monitoring, ixVars,
                   bulkVars, stopPc, enhanced, clock, fsOps, faults>>

\* extraction returns; the job's index writes are made; task_done
FinishJob ==
    /\ workerPc = "extracting"
    /\ LET job == cur[1]
           content == extract_text(fs, job.file_path)
       IN  \E fault \in Faults :
               /\ FaultApplies(fault, job.operation, job.file_path, content)
               /\ CountFault(fault)
               /\ SetIx(IF enhanced
                        THEN _process_file_enhanced(Cur, job.file_path, job.operation,
                                                    content, fault)
                        ELSE process_file_write(Cur, job.file_path, job.operation,
                                                content, fault))
    /\ cur' = <<>>
    /\ unfinished' = unfinished - 1
    /\ workerPc' = LoopTest
    /\ UNCHANGED <<call, fs, watchVars, queue, is_running, monitoring, bulkVars, stopPc,
                   enhanced, clock, fsOps>>

\* queue.get() times out on the empty queue and `while self.is_running` ends the loop
GetTimeout ==
    /\ workerPc = "get"
    /\ queue = <<>>
    /\ ~is_running
    /\ workerPc' = "exited"
    /\ UNCHANGED <<call, fs, watchVars, queueVars, is_running, monitoring, cur, ixVars,
                   bulkVars, stopPc, enhanced, clock, fsOps, faults>>

\* stop(): is_running = False; stop_monitoring(); then the wait for the queue.
\* observer.join() raises when the observer thread was never started.
Stop ==
    /\ stopPc = "idle"
    /\ is_running' = FALSE
    /\ monitoring' = FALSE
    /\ events' = <<>>
    /\ stopPc' = IF monitoring THEN "join_wait" ELSE "raised"
    /\ UNCHANGED <<call, fs, tasks, putters, nEvents, queueVars, workerVars, ixVars,
                   bulkVars, enhanced, clock, fsOps, faults>>

\* indexing_queue.join() returns within the 30 s; executors shut down, index closed
StopJoined ==
    /\ stopPc = "join_wait"
    /\ unfinished = 0
    /\ stopPc' = "closed"
    /\ UNCHANGED <<call, fs, watchVars, queueVars, is_running, monitoring, workerVars,
                   ixVars, bulkVars, enhanced, clock, fsOps, faults>>

\* the 30 s pass with jobs unfinished; executors shut down, index closed
StopTimeout ==
    /\ stopPc = "join_wait"
    /\ unfinished > 0
    /\ stopPc' = "closed"
    /\ UNCHANGED <<call, fs, watchVars, queueVars, is_running, monitoring, workerVars,
                   ixVars, bulkVars, enhanced, clock, fsOps, faults>>

Next ==
    \/ WriteFile
    \/ RemoveFile
    \/ EventArrives
    \/ Dispatch
    \/ TaskRun
    \/ PutterWake
    \/ BulkIndex
    \/ BulkPut
    \/ BulkJoin
    \/ Start
    \/ DequeueDelete
    \/ DequeueSkip
    \/ DequeueExtract
    \/ FinishJob
    \/ GetTimeout
    \/ Stop
    \/ StopJoined
    \/ StopTimeout

Spec == Init /\ [][Next]_vars

(***************************************************************************)
(* The bulk scan by itself: nothing changes the files, no watcher event    *)
(* arrives and stop() is not called.  The caller chooses whether and when  *)
(* to call start(); the event loop runs every coroutine that can run,      *)
(* which is the fairness stated.  is_running stays true once set, so a     *)
(* timeout of queue.get() only repeats the wait.                           *)
(***************************************************************************)
BulkNext ==
    \/ BulkIndex
    \/ BulkPut
    \/ BulkJoin
    \/ Start
    \/ DequeueExtract
    \/ FinishJob

\* the steps the event loop takes by itself
LoopStep ==
    \/ BulkPut
    \/ BulkJoin
    \/ DequeueExtract
    \/ FinishJob

BulkSpec == Init /\ [][BulkNext]_vars /\ WF_vars(LoopStep)

(***************************************************************************)
(* What a step of the worker and of the watcher looks like, for the        *)
(* properties below.                                                       *)
(***************************************************************************)
\* process_queue takes the job at the head of the queue in this step
Dequeued == workerPc = "get" /\ queue # <<>> /\ queue' = Tail(queue)

\* a delete job for p is taken and processed in this step
DeleteProcessed(p) ==
    /\ Dequeued
    /\ Head(queue).operation = "delete"
    /\ Head(queue).file_path = p

\* the index writes of a create or update job for p are made in this step
WriteProcessed(p) ==
    /\ workerPc = "extracting"
    /\ cur # <<>>
    /\ cur[1].file_path = p
    /\ cur' = <<>>

\* the observer hands its oldest event to the handler in this step
Dispatched == events # <<>> /\ events' = Tail(events) /\ monitoring'

\* an _add_to_queue task runs in this step
TaskRan == tasks # <<>> /\ tasks' = Tail(tasks)

NoFaultInStep == faults' = faults

\* the documents and chunks an index state holds for the file named p
KwFor(index, p) == DocsOf(index, Resolve(p))

(***************************************************************************)
(* C1.  After any sequence of create, update and delete jobs, the keyword  *)
(* index holds at most one document per path.                              *)
(***************************************************************************)
C1_OneDocumentPerPath ==
    \A d \in DOMAIN kw : BagCardinality(DocsOf(kw, d.path)) <= 1

(***************************************************************************)
(* C2.  When a delete job is processed (its writes not failing) for a      *)
(* path P that was indexed successfully, the keyword index then holds no   *)
(* document for P and the vector index no chunk of P.                      *)
(***************************************************************************)
C2_DeletePurgesBothIndexes ==
    [][\A p \in RawPaths :
          (DeleteProcessed(p) /\ p \in indexed_files /\ NoFaultInStep)
              => /\ KwFor(kw', p) = EmptyBag
                 /\ ChunksOf(vmeta', p) = {}]_vars

(***************************************************************************)
(* C3.  After a create or update job for P whose text was extracted (the   *)
(* file was read, no write failed), the chunks stored for P are exactly    *)
(* the chunks of that text: as many, and none of an earlier version.       *)
(***************************************************************************)
C3_ChunksOfLastText ==
    [][\A p \in RawPaths :
          (WriteProcessed(p) /\ enhanced /\ Exists(fs, p) /\ NoFaultInStep)
              => ChunksOf(vmeta', p) = Range(chunk_document(extract_text(fs, p), p))]_vars

(***************************************************************************)
(* C4.  When a job on a path completes after an earlier job on that path   *)
(* (the path is in indexed_files), the state of both indexes for the path  *)
(* is the one the later job alone produces, that is, produces from empty   *)
(* indexes.                                                                *)
(***************************************************************************)
AloneWrite(p, op, content) ==
    IF enhanced THEN _process_file_enhanced(EmptyIx, p, op, content, "none")
    ELSE process_file_write(EmptyIx, p, op, content, "none")

C4_LaterJobDetermines ==
    [][\A p \in RawPaths :
          /\ (WriteProcessed(p) /\ p \in indexed_files /\ Exists(fs, p) /\ NoFaultInStep)
                => LET alone == AloneWrite(p, cur[1].operation, extract_text(fs, p))
                   IN  /\ KwFor(kw', p) = KwFor(alone.kw, p)
                       /\ ChunksOf(vmeta', p) = ChunksOf(alone.db.meta, p)
          /\ (DeleteProcessed(p) /\ p \in indexed_files /\ NoFaultInStep)
                => /\ KwFor(kw', p) = EmptyBag
                   /\ ChunksOf(vmeta', p) = {}]_vars

(***************************************************************************)
(* C5.  Whenever the manager takes a job, no job still queued has a        *)
(* strictly more urgent priority, and no queued job of the same priority   *)
(* has an earlier timestamp.                                               *)
(***************************************************************************)
C5_PriorityThenFifo ==
    [][Dequeued =>
          \A i \in 2..Len(queue) :
              /\ ~(queue[i].priority < queue[1].priority)
              /\ queue[i].priority = queue[1].priority
                    => queue[1].timestamp <= queue[i].timestamp]_vars

(***************************************************************************)
(* C6.  For each native event the watcher emits exactly the jobs of the    *)
(* table, at priority high: created -> (path, create); modified ->         *)
(* (path, update); deleted -> (path, delete); moved -> (src, delete) then  *)
(* (dst, create); nothing for a directory event.                           *)
(***************************************************************************)
ExpectedJobs(ev) ==
    IF ev.is_directory THEN <<>>
    ELSE CASE ev.event_type = "created" -> <<<<ev.src_path, "create", HIGH>>>>
           [] ev.event_type = "modified" -> <<<<ev.src_path, "update", HIGH>>>>
           [] ev.event_type = "deleted" -> <<<<ev.src_path, "delete", HIGH>>>>
           [] ev.event_type = "moved" ->
                <<<<ev.src_path, "delete", HIGH>>, <<ev.dest_path, "create", HIGH>>>>

JobKey(j) == <<j.file_path, j.operation, j.priority>>

C6_WatcherEmitsTableJobs ==
    [][Dispatched =>
          /\ Len(tasks') >= Len(tasks)
          /\ SubSeq(tasks', 1, Len(tasks)) = tasks
          /\ [i \in 1..(Len(tasks') - Len(tasks)) |-> JobKey(tasks'[Len(tasks) + i])]
                = ExpectedJobs(Head(events).ev)]_vars

(***************************************************************************)
(* C7.  When the watcher's job meets a full queue, the job is dropped: it  *)
(* is not put on the queue and no put is left waiting.                     *)
(***************************************************************************)
C7_FullQueueDropsEvent ==
    [][(TaskRan /\ Len(queue) = QueueMax)
          => /\ queue' = queue
             /\ putters' = putters]_vars

(***************************************************************************)
(* C8.  A bulk_index call made without start() having been called, over    *)
(* roots with at least one eligible file, eventually returns.              *)
(***************************************************************************)
C8_BulkIndexReturns ==
    (bulkPc \in {"put", "join"} /\ workerPc = "none")
        ~> (bulkPc = "done" \/ workerPc # "none")

(***************************************************************************)
(* C9.  After a bulk scan over any list of roots on an empty index, with   *)
(* every write succeeding and nothing else producing jobs, the keyword     *)
(* index holds exactly one document for every file should_index accepts    *)
(* under the roots, and no other document.                                 *)
(***************************************************************************)
C9_BulkOneDocumentPerFile ==
    (bulkPc = "done" /\ bulkRuns = 1 /\ faults = 0 /\ fsOps = 0 /\ nEvents = 0)
        => LET eligible == {Resolve(f) : f \in Range(all_files(fs, bulkRoots))}
           IN  /\ \A f \in eligible : BagCardinality(DocsOf(kw, f)) = 1
               /\ doc_count(kw) = Cardinality(eligible)

(***************************************************************************)
(* C10.  When stop() ends its wait for the queue and goes on to shut down  *)
(* the pools and close the index, and process_queue has done all it will   *)
(* do (it has returned), the jobs that were queued have been processed:    *)
(* the queue is empty.                                                     *)
(***************************************************************************)
C10_StopDrainsQueue ==
    [][(stopPc = "join_wait" /\ stopPc' = "closed" /\ workerPc = "exited")
          => queue = <<>>]_vars

(***************************************************************************)
(* search/hybrid_search.py.                                                *)
(*                                                                         *)
(* What the two libraries hold for a query is given as two ranked lists:   *)
(* hits, the documents of the keyword index that match, best first (a      *)
(* path occurs once for each document the index holds for it), and nodes,  *)
(* the chunks of the vector index, most similar first (a file occurs once  *)
(* for each of its chunks).  Scores and weights are counted in tenths and  *)
(* combined scores, which are products of the two, in hundredths.          *)
(***************************************************************************)
\* tenths in one
Scale == 10
\* EmbeddingConfig.similarity_top_k
similarity_top_k == 5
\* EmbeddingConfig.similarity_threshold, in tenths
similarity_threshold == 7
\* the weights _hybrid_search takes when both given weights are zero, in tenths
default_keyword_weight == 6
default_semantic_weight == 4

Prefix(s, n) == SubSeq(s, 1, Min(n, Len(s)))

\* WhooshIndexer.search: Whoosh refuses a limit under 1 and search returns []
whoosh_search(hits, limit) == IF limit < 1 THEN <<>> ELSE Prefix(hits, limit)

\* VectorDatabase.similarity_search: `top_k or similarity_top_k`, then the
\* retrieved nodes under the threshold are dropped
\* an Optional argument: <<>> is None, <<v>> the value v
None == <<>>
\* Python's `arg or default`: the default for None and for a zero
OrDefault(arg, default) == IF arg = None \/ arg[1] = 0 THEN default ELSE arg[1]

\* similarity_search(query, top_k, threshold): nodes is the ranking of the
\* chunks for the query, nearest first, scores in tenths
similarity_search_with(nodes, top_k, threshold) ==
    LET k == OrDefault(top_k, similarity_top_k)
        t == OrDefault(threshold, similarity_threshold)
    IN  SelectSeq(Prefix(nodes, k), LAMBDA n : n.score >= t)

\* similarity_search(query, top_k), as the search manager calls it
similarity_search(nodes, top_k) == similarity_search_with(nodes, <<top_k>>, None)

NoChunk == <<>>

SearchResult(path, kscore, krank, sscore, srank, chunk, combined, type) ==
    [path |-> path, keyword_score |-> kscore, keyword_rank |-> krank,
     semantic_score |-> sscore, semantic_rank |-> srank, chunk_id |-> chunk,
     combined_score |-> combined, search_type |-> type]

_keyword_search_only(hits, limit) ==
    LET results == whoosh_search(hits, limit)
    IN  [i \in 1..Len(results) |->
            SearchResult(results[i].path, results[i].score, i, 0, 0, NoChunk,
                         results[i].score * Scale, "keyword")]

_semantic_search_only(hits, nodes, available, limit) ==
    IF ~available THEN _keyword_search_only(hits, limit)
    ELSE LET results == similarity_search(nodes, limit)
         IN  [i \in 1..Len(results) |->
                 SearchResult(results[i].source_path, 0, 0, results[i].score, i,
                              results[i].chunk_id, results[i].score * Scale,
                              "semantic")]

\* results_map: a dict keeps its keys in order of first insertion; assigning
\* to a key that is present replaces the value where the key stands
HasPath(map, path) == \E i \in 1..Len(map) : map[i].path = path
PlaceOf(map, path) == CHOOSE i \in 1..Len(map) : map[i].path = path
PutResult(map, r) ==
    IF HasPath(map, r.path) THEN [map EXCEPT ![PlaceOf(map, r.path)] = r]
    ELSE Append(map, r)

RECURSIVE AddKeywordResults(_, _)
AddKeywordResults(map, keyword_results) ==
    IF keyword_results = <<>> THEN map
    ELSE AddKeywordResults(PutResult(map, Head(keyword_results)), Tail(keyword_results))

\* one semantic result merged in: into the result the map holds for its path,
\* or added with its weighted semantic score alone
MergeSemantic(map, sr, keyword_weight, semantic_weight) ==
    IF HasPath(map, sr.path)
    THEN LET existing == map[PlaceOf(map, sr.path)]
         IN  [map EXCEPT ![PlaceOf(map, sr.path)] =
                 [existing EXCEPT
                     !.semantic_score = sr.semantic_score,
                     !.semantic_rank = sr.semantic_rank,
                     !.chunk_id = sr.chunk_id,
                     !.search_type = "hybrid",
                     !.combined_score = keyword_weight * existing.keyword_score
                                        + semantic_weight * sr.semantic_score]]
    ELSE Append(map, [sr EXCEPT !.search_type = "semantic",
                                !.combined_score = semantic_weight * sr.semantic_score])

RECURSIVE MergeSemanticResults(_, _, _, _)
MergeSemanticResults(map, semantic_results, keyword_weight, semantic_weight) ==
    IF semantic_results = <<>> THEN map
    ELSE MergeSemanticResults(
             MergeSemantic(map, Head(semantic_results), keyword_weight, semantic_weight),
             Tail(semantic_results), keyword_weight, semantic_weight)

\* list.sort(key=combined_score, reverse=True): stable, equal scores keep
\* the order they had
InsertDescending(sorted, r) ==
    LET n == Cardinality({i \in 1..Len(sorted) :
                             sorted[i].combined_score >= r.combined_score})
    IN  SubSeq(sorted, 1, n) \o <<r>> \o SubSeq(sorted, n + 1, Len(sorted))

RECURSIVE SortDescending(_, _)
SortDescending(sorted, rest) ==
    IF rest = <<>> THEN sorted
    ELSE SortDescending(InsertDescending(sorted, Head(rest)), Tail(rest))

_combine_search_results(keyword_results, semantic_results, keyword_weight, semantic_weight) ==
    SortDescending(<<>>,
        MergeSemanticResults(AddKeywordResults(<<>>, keyword_results),
                             semantic_results, keyword_weight, semantic_weight))

\* the weights normalized to sum to one (Scale tenths)
NormalizedWeights(keyword_weight, semantic_weight) ==
    LET total_weight == keyword_weight + semantic_weight
    IN  IF total_weight > 0
        THEN [keyword |-> (keyword_weight * Scale) \div total_weight,
              semantic |-> (semantic_weight * Scale) \div total_weight]
        ELSE [keyword |-> default_keyword_weight, semantic |-> default_semantic_weight]

_hybrid_search(hits, nodes, available, limit, keyword_weight, semantic_weight) ==
    LET w == NormalizedWeights(keyword_weight, semantic_weight)
        keyword_results == _keyword_search_only(hits, limit * 2)
        semantic_results ==
            IF available THEN _semantic_search_only(hits, nodes, available, limit * 2)
            ELSE <<>>
    IN  Prefix(_combine_search_results(keyword_results, semantic_results,
                                       w.keyword, w.semantic), limit)

\* HybridSearchManager.search
search(hits, nodes, available, search_type, limit, keyword_weight, semantic_weight) ==
    CASE search_type = "keyword" -> _keyword_search_only(hits, limit)
      [] search_type = "semantic" -> _semantic_search_only(hits, nodes, available, limit)
      [] OTHER -> _hybrid_search(hits, nodes, available, limit, keyword_weight,
                                 semantic_weight)

(***************************************************************************)
(* Direct calls of HybridSearchManager.search, on any ranked lists the     *)
(* two indexes can hold for the query.                                     *)
(***************************************************************************)
\* documents matching a query, chunks retrieved for it, and the largest limit
MaxHits == 3
MaxNodes == 2
MaxLimit == 3

\* the paths of search results, in ascending order of the path strings
PathOrder == <<FileC, FileA, FileB>>
PathRank(path) == CHOOSE i \in 1..Len(PathOrder) : PathOrder[i] = path

KeywordScores == {3, 9}
SemanticScores == {5, 7, 8}
\* the caller's weights (keyword, semantic), in tenths
WeightPairs == {<<0, 0>>, <<6, 4>>, <<0, 4>>, <<6, 0>>, <<4, 4>>}

NonIncreasing(scores) == \A i \in 1..(Len(scores) - 1) : scores[i] >= scores[i + 1]

Hits ==
    UNION {{[i \in 1..n |-> [path |-> ps[i], score |-> sc[i]]] :
               ps \in [1..n -> Range(PathOrder)],
               sc \in {f \in [1..n -> KeywordScores] : NonIncreasing(f)}}
           : n \in 0..MaxHits}

Nodes ==
    UNION {{[i \in 1..n |-> [source_path |-> ps[i], score |-> sc[i],
                             chunk_id |-> <<ps[i], i - 1>>]] :
               ps \in [1..n -> Range(PathOrder)],
               sc \in {f \in [1..n -> SemanticScores] : NonIncreasing(f)}}
           : n \in 0..MaxNodes}

pipelineVars ==
    <<fs, watchVars, queueVars, is_running, monitoring, workerVars, ixVars, bulkVars,
      stopPc, enhanced, clock, fsOps, faults>>

SearchCall ==
    /\ call.fn = "none"
    /\ \E hits \in Hits, nodes \in Nodes, available \in BOOLEAN,
          search_type \in {"keyword", "semantic", "hybrid"}, limit \in 0..MaxLimit,
          weights \in WeightPairs :
        \* the weights are read in hybrid mode only
        /\ search_type # "hybrid"
              => weights = <<default_keyword_weight, default_semantic_weight>>
        /\ call' = [fn |-> "search", hits |-> hits, nodes |-> nodes,
                    available |-> available, search_type |-> search_type,
                    limit |-> limit, keyword_weight |-> weights[1],
                    semantic_weight |-> weights[2],
                    results |-> search(hits, nodes, available, search_type, limit,
                                       weights[1], weights[2])]
        /\ UNCHANGED pipelineVars

\* paths should_index_file can be asked about: plain files, excluded
\* extensions in either case, excluded names as a directory at the front, in
\* the middle and as the file's own name, and a name that only contains one
CallPaths ==
    {FileA, FileB, FileC, <<"r", "x.log">>, <<"r", "X.LOG">>, <<"r", "a.txt.tmp">>,
     <<"node_modules", "r", "a.txt">>, <<"r", "__pycache__">>, <<"r", ".gitx", "c.txt">>}

\* what a stat of the path can answer: sizes up to one over the limit, the
\* file is not there, or the call is refused
StatOutcomes ==
    {StatOk(size) : size \in 0..(max_file_size + 1)}
        \cup {StatError("ENOENT"), StatError("EACCES")}

\* should_index_file(path, config) is called; the file can change between the
\* stat of path.exists() and the one of path.stat()
ShouldIndexCall ==
    /\ call.fn = "none"
    /\ \E parts \in CallPaths, exists_stat \in StatOutcomes, size_stat \in StatOutcomes :
        /\ call' = [fn |-> "should_index_file", parts |-> parts,
                    exists_stat |-> exists_stat, size_stat |-> size_stat,
                    result |-> should_index(parts, exists_stat, size_stat)]
        /\ UNCHANGED pipelineVars

\* the thresholds a caller passes, in tenths, and none
Thresholds == {None, <<0>>, <<5>>, <<8>>}
TopKs == {None} \cup {<<k>> : k \in 0..MaxNodes}

\* VectorDatabase.similarity_search(query, top_k, threshold) is called
SimilarityCall ==
    /\ call.fn = "none"
    /\ \E nodes \in Nodes, top_k \in TopKs, threshold \in Thresholds :
        /\ call' = [fn |-> "similarity_search", nodes |-> nodes, top_k |-> top_k,
                    threshold |-> threshold,
                    results |-> similarity_search_with(nodes, top_k, threshold)]
        /\ UNCHANGED pipelineVars

(***************************************************************************)
(* indexing/extractor.py and indexing/extraction_standalone.py: the        *)
(* routing of a file to a parser by the MIME type libmagic detects.        *)
(***************************************************************************)
PdfType == "application/pdf"
DocxType == "application/vnd.openxmlformats-officedocument.wordprocessingml.document"
XlsxType == "application/vnd.openxmlformats-officedocument.spreadsheetml.sheet"
PptxType == "application/vnd.openxmlformats-officedocument.presentationml.presentation"
TextTypes == {"text/plain", "text/html"}
ScriptTypes == {"application/javascript", "application/json"}
MimeTypes ==
    {PdfType, DocxType, XlsxType, PptxType, "application/octet-stream"}
        \cup TextTypes \cup ScriptTypes

\* the parsers that need an optional package: PyPDF2, python-docx, openpyxl,
\* python-pptx
OptionalParsers == {"pdf", "docx", "xlsx", "pptx"}

\* file_path.endswith(".ipynb")
endswith_ipynb(file) == file[Len(file)] \in {"n.ipynb"}

\* what a call of extract_text gives back: the parser the file went to, the
\* text ("content" for what a parser read, "" for nothing), the MIME type
Extraction(parser, text, mime_type) ==
    [parser |-> parser, text |-> text, mime_type |-> mime_type, raises |-> FALSE]

\* the chain of tests on the MIME type in TextExtractor.extract_text
route(file, mime_type) ==
    IF mime_type = PdfType THEN "pdf"
    ELSE IF mime_type = DocxType THEN "docx"
    ELSE IF mime_type = XlsxType THEN "xlsx"
    ELSE IF mime_type = PptxType THEN "pptx"
    ELSE IF mime_type \in TextTypes THEN "text"
    ELSE IF mime_type \in ScriptTypes THEN "text"
    ELSE IF endswith_ipynb(file) THEN "notebook"
    ELSE "none"

\* the chain in extract_text_standalone, which has no notebook branch
route_standalone(file, mime_type) ==
    IF mime_type = PdfType THEN "pdf"
    ELSE IF mime_type = DocxType THEN "docx"
    ELSE IF mime_type = XlsxType THEN "xlsx"
    ELSE IF mime_type = PptxType THEN "pptx"
    ELSE IF mime_type \in TextTypes \cup ScriptTypes THEN "text"
    ELSE "none"

\* TextExtractor.extract_text: an exception of libmagic, and the ImportError
\* an _extract_* method raises when its package is missing, reach the outer
\* except, which returns ("", "unknown"); a parser's own failure is caught in
\* the parser, which returns ""
TextExtractor_extract_text(file, mime_type, magic_raises, missing, parser_fails) ==
    LET parser == route(file, mime_type)
    IN  IF magic_raises THEN Extraction("none", "", "unknown")
        ELSE IF parser = "none" THEN Extraction(parser, "", mime_type)
        ELSE IF parser \in missing THEN Extraction(parser, "", "unknown")
        ELSE IF parser_fails THEN Extraction(parser, "", mime_type)
        ELSE Extraction(parser, "content", mime_type)

\* extract_text_standalone: a parser whose package is missing returns ""
extract_text_standalone(file, mime_type, magic_raises, missing, parser_fails) ==
    LET parser == route_standalone(file, mime_type)
    IN  IF magic_raises THEN Extraction("none", "", "unknown")
        ELSE IF parser = "none" THEN Extraction(parser, "", mime_type)
        ELSE IF parser \in missing \/ parser_fails THEN Extraction(parser, "", mime_type)
        ELSE Extraction(parser, "content", mime_type)

ExtractPaths == {FileA, <<"r", "n.ipynb">>}
MissingSets == {{}, {"pdf"}, OptionalParsers}

\* the manager extracts a file's text, in the process pool by
\* extract_text_standalone or in the thread pool by TextExtractor.extract_text
ExtractCall ==
    /\ call.fn = "none"
    /\ \E file \in ExtractPaths, mime_type \in MimeTypes, use_process_pool \in BOOLEAN,
          magic_raises \in BOOLEAN, missing \in MissingSets, parser_fails \in BOOLEAN :
        /\ call' = [fn |-> "extract_text", file |-> file, mime_type |-> mime_type,
                    use_process_pool |-> use_process_pool,
                    magic_raises |-> magic_raises, missing |-> missing,
                    parser_fails |-> parser_fails,
                    result |-> IF use_process_pool
                               THEN extract_text_standalone(file, mime_type, magic_raises,
                                                            missing, parser_fails)
                               ELSE TextExtractor_extract_text(file, mime_type,
                                                               magic_raises, missing,
                                                               parser_fails)]
        /\ UNCHANGED pipelineVars

\* a fresh manager and no file: only the interface is called
InterfaceInit == Init /\ DOMAIN fs = {} /\ enhanced

InterfaceNext ==
    \/ SearchCall
    \/ ShouldIndexCall
    \/ SimilarityCall
    \/ ExtractCall

InterfaceSpec == InterfaceInit /\ [][InterfaceNext]_vars

(***************************************************************************)
(* What a search call looked like, for the properties below.               *)
(***************************************************************************)
Searched(type) == call.fn = "search" /\ call.search_type = type

PathsOf(results) == [i \in 1..Len(results) |-> results[i].path]

\* the place where a path first stands in a list of paths, 0 if it does not
FirstIndex(paths, path) ==
    IF \E i \in 1..Len(paths) : paths[i] = path
    THEN CHOOSE i \in 1..Len(paths) :
             paths[i] = path /\ \A j \in 1..(i - 1) : paths[j] # path
    ELSE 0

\* a path's rank in the keyword ranking and in the semantic ranking of the
\* call's query: the place of its best entry
KeywordRanking == PathsOf(_keyword_search_only(call.hits, Len(call.hits)))
SemanticRanking ==
    PathsOf(_semantic_search_only(call.hits, call.nodes, TRUE, Len(call.nodes)))
KeywordPlace(path) == FirstIndex(KeywordRanking, path)
SemanticPlace(path) == FirstIndex(SemanticRanking, path)

(***************************************************************************)
(* C11.  In hybrid mode every returned result has combined = w_k' *        *)
(* keyword_score + w_s' * semantic_score, with the weights normalized to   *)
(* sum to one (0.6 and 0.4 when both are zero) and a missing score         *)
(* counting as 0: for results of both streams, of the keyword stream only  *)
(* and of the semantic stream only.                                        *)
(***************************************************************************)
C11_CombinedIsWeightedSum ==
    Searched("hybrid") =>
        LET total == call.keyword_weight + call.semantic_weight
            wk == IF total > 0 THEN (call.keyword_weight * Scale) \div total ELSE 6
            ws == IF total > 0 THEN (call.semantic_weight * Scale) \div total ELSE 4
        IN  \A i \in 1..Len(call.results) :
                call.results[i].combined_score
                    = wk * call.results[i].keyword_score
                      + ws * call.results[i].semantic_score

(***************************************************************************)
(* C12.  Hybrid results are sorted by combined score descending, equal     *)
(* combined scores by path ascending, and no more than limit are returned. *)
(***************************************************************************)
C12_SortedWithPathTieBreak ==
    Searched("hybrid") =>
        /\ Len(call.results) <= call.limit
        /\ \A i \in 1..(Len(call.results) - 1) :
              \/ call.results[i].combined_score > call.results[i + 1].combined_score
              \/ /\ call.results[i].combined_score = call.results[i + 1].combined_score
                 /\ PathRank(call.results[i].path) < PathRank(call.results[i + 1].path)

(***************************************************************************)
(* C13.  In every mode and for every limit N >= 0 a search returns at most *)
(* N results, and the combined scores do not increase down the list.       *)
(***************************************************************************)
C13_AtMostLimitNonIncreasing ==
    call.fn = "search" =>
        /\ Len(call.results) <= call.limit
        /\ \A i \in 1..(Len(call.results) - 1) :
              call.results[i].combined_score >= call.results[i + 1].combined_score

(***************************************************************************)
(* C14.  In hybrid mode with w_k = 0, w_s > 0 and the vector index         *)
(* available, the results stand in the order of the semantic ranking: no   *)
(* result found only by keyword search stands above a result found by      *)
(* semantic search, and results found by semantic search stand in the      *)
(* order of their semantic ranks.                                          *)
(***************************************************************************)
C14_ZeroKeywordWeightIsSemanticOrder ==
    (Searched("hybrid") /\ call.keyword_weight = 0 /\ call.semantic_weight > 0
        /\ call.available)
    => \A i, j \in 1..Len(call.results) :
          i < j =>
            LET a == SemanticPlace(call.results[i].path)
                b == SemanticPlace(call.results[j].path)
            IN  /\ ~(a = 0 /\ b > 0)
                /\ (a > 0 /\ b > 0) => a < b

(***************************************************************************)
(* C15.  In hybrid mode with w_s = 0 and w_k > 0, the returned results     *)
(* that the keyword search found stand in the order of the keyword         *)
(* ranking.                                                                *)
(***************************************************************************)
C15_ZeroSemanticWeightIsKeywordOrder ==
    (Searched("hybrid") /\ call.semantic_weight = 0 /\ call.keyword_weight > 0)
    => \A i, j \in 1..Len(call.results) :
          i < j =>
            LET a == KeywordPlace(call.results[i].path)
                b == KeywordPlace(call.results[j].path)
            IN  (a > 0 /\ b > 0) => a < b

(***************************************************************************)
(* C16.  With the vector index unavailable, a search in semantic mode or   *)
(* in hybrid mode returns the paths that keyword mode returns for the same *)
(* query and limit, in the same order.                                     *)
(***************************************************************************)
C16_FallbackEqualsKeywordMode ==
    (call.fn = "search" /\ call.search_type # "keyword" /\ ~call.available)
    => PathsOf(call.results)
         = PathsOf(search(call.hits, call.nodes, call.available, "keyword",
                          call.limit, call.keyword_weight, call.semantic_weight))

(***************************************************************************)
(* C17.  should_index_file returns false exactly when the path does not    *)
(* exist, or its lower-cased extension is excluded, or a segment of the    *)
(* path is an excluded directory name, or its size is over max_file_size,  *)
(* or stat fails; it returns true otherwise (a size equal to max_file_size *)
(* included) and never raises.                                             *)
(***************************************************************************)
ShouldIndexAsked == call.fn = "should_index_file"

RejectedByRule ==
    \/ call.exists_stat.errno # "none"
    \/ Lower(Suffix(call.parts)) \in excluded_extensions
    \/ \E i \in 1..Len(call.parts) : call.parts[i] \in excluded_dirs
    \/ call.size_stat.errno # "none"
    \/ call.size_stat.st_size > max_file_size

C17_ShouldIndexDecision ==
    ShouldIndexAsked
    => /\ call.result # "raises"
       /\ call.result = "false" <=> RejectedByRule
       /\ call.result = "true" <=> ~RejectedByRule

\* the same decision, for calls in which the stat of path.exists() is not refused
C17_DecisionWhenExistsAnswers ==
    (ShouldIndexAsked /\ call.exists_stat.errno # "EACCES")
    => /\ call.result # "raises"
       /\ call.result = "false" <=> RejectedByRule
       /\ call.result = "true" <=> ~RejectedByRule

C17_SizeAtLimitAccepted ==
    /\ ShouldIndexAsked
    /\ call.exists_stat.errno = "none"
    /\ call.size_stat = StatOk(max_file_size)
    /\ call.result = "true"

(***************************************************************************)
(* A tree with an excluded directory: r/.git/c.txt is there from the       *)
(* start, r/a.txt may be.  The tree is scanned from r, from r/.git and     *)
(* from the link g, and the watcher reports r/.git/c.txt under its own     *)
(* name and under the link's.  Nothing changes the files, stop() is not    *)
(* called, and with at most two jobs the queue never fills.                *)
(***************************************************************************)
ExclusionFileSystems == UNION {[S -> InitTexts] : S \in {{FileC}, {FileA, FileC}}}

ExclusionRootLists == {<<<<"r">>>>, <<<<"r", ".git">>>>, <<<<"g">>>>}

ExclusionEvents ==
    {[event_type |-> t, src_path |-> p, dest_path |-> <<>>, is_directory |-> FALSE]
        : t \in {"created", "modified"}, p \in {FileC, <<"g", "c.txt">>}}

ExclusionInit ==
    /\ fs \in ExclusionFileSystems
    /\ InitManager

ExclusionBulkIndex == BulkIndexOf(ExclusionRootLists)
ExclusionEventArrives == EventArrivesOf(ExclusionEvents)

ExclusionNext ==
    \/ ExclusionBulkIndex
    \/ BulkJoin
    \/ Start
    \/ ExclusionEventArrives
    \/ Dispatch
    \/ TaskRun
    \/ DequeueSkip
    \/ DequeueExtract
    \/ FinishJob

ExclusionSpec == ExclusionInit /\ [][ExclusionNext]_vars

(***************************************************************************)
(* C18.  A file with an ancestor directory whose name is in excluded_dirs  *)
(* never has a document in the keyword index nor chunks in the vector      *)
(* index, whether the bulk scan or a watcher create/update event reached   *)
(* it.                                                                     *)
(***************************************************************************)
HasExcludedAncestor(file) ==
    \E i \in 1..(Len(file) - 1) : file[i] \in excluded_dirs

C18_ExcludedDirsNeverIndexed ==
    /\ \A doc \in BagToSet(kw) : ~HasExcludedAncestor(Resolve(doc.path))
    /\ \A chunk \in vmeta \cup vstore : ~HasExcludedAncestor(Resolve(chunk.source_path))

\* the same, for the jobs whose path names the excluded directory
C18_NamedExcludedDirSkipped ==
    [][\A job \in Range(queue) :
          (HasExcludedAncestor(job.file_path) /\ Dequeued /\ Head(queue) = job)
          => (kw' = kw /\ vmeta' = vmeta /\ vstore' = vstore)]_vars

(***************************************************************************)
(* The two stores called directly: WhooshIndexer.add_document and          *)
(* VectorDatabase.add_chunks,                                              *)
(* and the manager's delete of a path from both, a few calls one after the *)
(* other on indexes that start empty.  The deletes complete: no exception  *)
(* is injected in them.                                                    *)
(***************************************************************************)
MaxCalls == 4

CallCount == IF call.fn = "none" THEN 0 ELSE call.n

storeFrame == <<fs, watchVars, queueVars, is_running, monitoring, workerVars, bulkVars, stopPc, enhanced, clock, fsOps, faults>>

\* the chunk lists given to add_chunks: the chunks of a two-word file
ChunkLists == {chunk_document(text, file) : text \in InitTexts, file \in Files}

AddDocumentCall ==
    /\ CallCount < MaxCalls
    /\ \E file \in Files :
        LET r == add_document(kw, file, <<"x">>, FALSE)
        IN  /\ kw' = r.ix
            /\ call' = [fn |-> "add_document", n |-> CallCount + 1, path |-> file,
                        ok |-> r.ok]
            /\ UNCHANGED <<vmeta, vstore, indexed_files, stats, storeFrame>>

AddChunksCall ==
    /\ CallCount < MaxCalls
    /\ \E chunks \in ChunkLists :
        \E failure \in FailuresOf(chunks) :
            LET r == add_chunks_failing(VecDb(vmeta, vstore), chunks, failure)
            IN  /\ vmeta' = r.db.meta
                /\ vstore' = r.db.store
                /\ call' = [fn |-> "add_chunks", n |-> CallCount + 1, chunks |-> chunks,
                            failure |-> failure, ok |-> r.ok]
                /\ UNCHANGED <<kw, indexed_files, stats, storeFrame>>

\* what a later call can know of the call before it
Brief(c) ==
    IF c.fn = "delete"
    THEN [fn |-> c.fn, path |-> c.path, keyword_success |-> c.keyword_success,
          vector_success |-> c.vector_success, deleted_chunks |-> c.deleted_chunks]
    ELSE [fn |-> c.fn]

\* process_file(file_path, "delete") of the enhanced manager: delete_document
\* on the keyword index, then delete_document_chunks on the vector database,
\* which logs the number of chunks it deleted
DeleteCall ==
    /\ CallCount < MaxCalls
    /\ \E file \in RawPaths :
        LET S == enhanced_process_file_delete(Cur, file, "none")
        IN  /\ SetIx(S)
            /\ call' = [fn |-> "delete", n |-> CallCount + 1, path |-> file,
                        keyword_success |-> delete_document(kw, file, FALSE).ok,
                        vector_success |->
                            delete_document_chunks(VecDb(vmeta, vstore), file).ok,
                        deleted_chunks |-> Cardinality(ChunksOf(vmeta, file)),
                        previous |-> Brief(call)]
            /\ UNCHANGED storeFrame

StoreNext ==
    \/ AddDocumentCall
    \/ AddChunksCall
    \/ DeleteCall

StoreSpec == InterfaceInit /\ [][StoreNext]_vars

(***************************************************************************)
(* C19.  add_chunks is atomic per call: when the embedding or the          *)
(* insertion of a chunk of the call fails, the call returns false and none *)
(* of the call's chunks has become visible in the embedding store or in    *)
(* the chunk metadata.                                                     *)
(***************************************************************************)
AddChunksFailed ==
    /\ call'.fn = "add_chunks"
    /\ call'.n = CallCount + 1
    /\ call'.failure.step \in {"insert", "metadata"}

C19_AddChunksAtomic ==
    [][AddChunksFailed
         => /\ ~call'.ok
            /\ (vstore' \ vstore) \cap Range(call'.chunks) = {}
            /\ (vmeta' \ vmeta) \cap Range(call'.chunks) = {}]_vars

\* the same for a call of one chunk, or one whose first insertion fails
C19_FirstInsertFailureLeavesNothing ==
    [][(AddChunksFailed /\ call'.failure = Failure("insert", 1))
         => /\ ~call'.ok
            /\ vstore' = vstore
            /\ vmeta' = vmeta]_vars

(***************************************************************************)
(* C20.  Delete is idempotent: when a path is deleted twice in succession, *)
(* the second delete leaves the keyword index and the vector index as the  *)
(* first left them, the keyword delete returns false (no document          *)
(* affected) and the vector delete returns true for its zero rows.         *)
(***************************************************************************)
SecondDelete ==
    /\ call.fn = "delete"
    /\ call'.fn = "delete"
    /\ call'.n = call.n + 1
    /\ call'.path = call.path

C20_DeleteIdempotent ==
    [][SecondDelete
         => /\ kw' = kw
            /\ vmeta' = vmeta
            /\ vstore' = vstore
            /\ ~call'.keyword_success
            /\ call'.vector_success
            /\ call'.deleted_chunks = 0]_vars

\* a second delete of a path whose first delete removed a document and chunks
C20_DeletedTwice ==
    /\ call.fn = "delete"
    /\ call.previous.fn = "delete"
    /\ call.previous.path = call.path
    /\ call.previous.keyword_success
    /\ call.previous.deleted_chunks > 0
    /\ ~call.keyword_success
    /\ call.vector_success

(***************************************************************************)
(* process_file awaited directly, one call after the other, on files that  *)
(* do not change; between two calls the manager may be restarted: a new    *)
(* manager opens the stored indexes with an empty indexed_files set and    *)
(* fresh counters.  update_document can also be called on the keyword      *)
(* index by itself.                                                        *)
(***************************************************************************)
MaxProcessed == 3

\* what the file system does to the job's file during one process_file call:
\* nothing; the file vanishes between should_index_file and
\* get_file_metadata; the file cannot be opened for reading, so that
\* calculate_file_hash returns None
IoOutcomes == {"none", "vanishes", "unreadable"}

\* get_file_metadata returns None when the path does not exist, when the hash
\* cannot be computed, and on any exception
has_file_metadata(fsys, p, io) == Exists(fsys, p) /\ io = "none"

\* process_file(file_path, operation) from its call to its return, of the
\* enhanced manager (enh) or of the base manager
process_file(S, fsys, p, op, io, enh) ==
    IF op = "delete"
    THEN IF enh THEN enhanced_process_file_delete(S, p, "none")
         ELSE process_file_delete(S, p, "none")
    ELSE IF ~should_index_file(fsys, p)
         THEN [S EXCEPT !.stats.files_skipped = @ + 1]
    ELSE IF ~has_file_metadata(fsys, p, io)
         THEN [S EXCEPT !.stats.files_failed = @ + 1]
    ELSE IF enh THEN _process_file_enhanced(S, p, op, extract_text(fsys, p), "none")
    ELSE process_file_write(S, p, op, extract_text(fsys, p), "none")

jobFrame == <<watchVars, queueVars, is_running, monitoring, workerVars, bulkVars, stopPc, enhanced, clock, fsOps, faults>>

\* what a later call can know of the call before it
BriefJob(c) ==
    IF c.fn = "process_file"
    THEN [fn |-> c.fn, path |-> c.path, operation |-> c.operation, io |-> c.io]
    ELSE IF c.fn = "update_document" THEN [fn |-> c.fn, path |-> c.path, ok |-> c.ok]
    ELSE [fn |-> c.fn]

ProcessFileCall ==
    /\ CallCount < MaxProcessed
    /\ \E file \in RawPaths, operation \in {"create", "update", "delete"}, io \in IoOutcomes :
        /\ operation = "delete" => io = "none"
        /\ SetIx(process_file(Cur, fs, file, operation, io, enhanced))
        /\ call' = [fn |-> "process_file", n |-> CallCount + 1, path |-> file,
                    operation |-> operation, io |-> io,
                    before |-> Cur, previous |-> BriefJob(call)]
        /\ UNCHANGED <<fs, jobFrame>>

\* WhooshIndexer.update_document(metadata, content) with the metadata and the
\* text of a file that exists
UpdateDocumentCall ==
    /\ CallCount < MaxProcessed
    /\ \E file \in DOMAIN fs :
        LET r == update_document(kw, file, fs[file], FALSE)
        IN  /\ kw' = r.ix
            /\ call' = [fn |-> "update_document", n |-> CallCount + 1, path |-> file,
                        ok |-> r.ok, previous |-> BriefJob(call)]
            /\ UNCHANGED <<fs, vmeta, vstore, indexed_files, stats, jobFrame>>

\* the manager is stopped and a new one is constructed over the same index
\* directories
Restart ==
    /\ CallCount < MaxProcessed
    /\ call.fn # "restart"
    /\ indexed_files' = {}
    /\ stats' = NoStats
    /\ call' = [fn |-> "restart", n |-> CallCount + 1]
    /\ UNCHANGED <<fs, kw, vmeta, vstore, jobFrame>>

JobNext ==
    \/ ProcessFileCall
    \/ UpdateDocumentCall
    \/ Restart

JobSpec == Init /\ [][JobNext]_vars

(***************************************************************************)
(* C21.  Update is idempotent: a second update_document call with the same *)
(* arguments, and a second update job for an unchanged file, leave the     *)
(* keyword index and the chunks of the path as the first left them.        *)
(***************************************************************************)
SecondUpdateCall ==
    /\ call.fn = "update_document"
    /\ call'.fn = "update_document"
    /\ call'.n = call.n + 1
    /\ call'.path = call.path

SecondUpdateJob ==
    /\ call.fn = "process_file"
    /\ call.operation = "update"
    /\ call.io = "none"
    /\ call'.fn = "process_file"
    /\ call'.n = call.n + 1
    /\ call'.operation = "update"
    /\ call'.io = "none"
    /\ call'.path = call.path

C21_UpdateIdempotent ==
    [][(SecondUpdateCall \/ SecondUpdateJob)
         => /\ kw' = kw
            /\ ChunksOf(vmeta', call'.path) = ChunksOf(vmeta, call'.path)
            /\ ChunksOf(vstore', call'.path) = ChunksOf(vstore, call'.path)]_vars

\* the same for update_document called by itself
C21_UpdateDocumentIdempotent ==
    [][SecondUpdateCall => kw' = kw]_vars

\* the same for update jobs in a manager whose indexed_files is accurate:
\* it holds the job's path whenever the index holds a document of the file
C21_UpdateJobIdempotentWhenTracked ==
    [][(SecondUpdateJob
          /\ (KwFor(call.before.kw, call.path) # EmptyBag
                 => call.path \in call.before.indexed))
         => /\ kw' = kw
            /\ ChunksOf(vmeta', call'.path) = ChunksOf(vmeta, call'.path)
            /\ ChunksOf(vstore', call'.path) = ChunksOf(vstore, call'.path)]_vars

(***************************************************************************)
(* C22.  similarity_search(query, top_k, threshold) returns exactly those  *)
(* of the top_k nearest chunks whose score is at least the threshold       *)
(* passed, for every top_k and threshold a caller passes, a threshold of 0 *)
(* included.                                                               *)
(***************************************************************************)
SimilarityAsked ==
    /\ call.fn = "similarity_search"
    /\ call.top_k # None
    /\ call.threshold # None

C22_TopKOverThreshold ==
    SimilarityAsked
    => call.results = SelectSeq(Prefix(call.nodes, call.top_k[1]),
                                LAMBDA n : n.score >= call.threshold[1])

\* the same for arguments that are not zero
C22_NonZeroArguments ==
    (SimilarityAsked /\ call.top_k[1] # 0 /\ call.threshold[1] # 0)
    => call.results = SelectSeq(Prefix(call.nodes, call.top_k[1]),
                                LAMBDA n : n.score >= call.threshold[1])

(***************************************************************************)
(* C23.  Every path that ends in .ipynb goes to the notebook parser,       *)
(* whatever MIME type is detected for it (text types and application/json  *)
(* included), in the thread pool and in the process pool.                  *)
(***************************************************************************)
Extracted == call.fn = "extract_text" /\ ~call.magic_raises

C23_NotebookRouting ==
    (Extracted /\ endswith_ipynb(call.file)) => call.result.parser = "notebook"

\* a notebook whose type is none of those tested before the suffix, in the
\* thread pool
C23_NotebookOfUntestedType ==
    (Extracted /\ endswith_ipynb(call.file) /\ ~call.use_process_pool
       /\ call.mime_type = "application/octet-stream")
    => call.result.parser = "notebook"

(***************************************************************************)
(* C24.  extract never raises; when the parser fails, and when the         *)
(* optional parser for the detected type is missing, it returns the empty  *)
(* text together with the MIME type detected for the file.                 *)
(***************************************************************************)
ParserUnusable ==
    LET parser == IF call.use_process_pool
                  THEN route_standalone(call.file, call.mime_type)
                  ELSE route(call.file, call.mime_type)
    IN  parser # "none" /\ (call.parser_fails \/ parser \in call.missing)

C24_ExtractNeverRaises ==
    call.fn = "extract_text"
    => /\ ~call.result.raises
       /\ (Extracted /\ ParserUnusable)
            => (call.result.text = "" /\ call.result.mime_type = call.mime_type)

\* the same when every optional package is installed
C24_ParserFailureKeepsType ==
    (Extracted /\ call.missing = {} /\ call.parser_fails)
    => (~call.result.raises /\ call.result.text = ""
        /\ call.result.mime_type = call.mime_type)

(***************************************************************************)
(* ai/chunking.py: the positions chunk_document gives its chunks.  The     *)
(* splitter is a library; what it returns for a text is left open: any     *)
(* list of short texts, found in the cleaned content or not.               *)
(***************************************************************************)
MaxContent == 3
MaxChunkText == 2
MaxChunks == 2
MaxOverlap == 2

Letters == {"x", "y"}
StringsUpTo(n) == UNION {[1..k -> Letters] : k \in 1..n}

\* whether sub stands in s at the 0-based index i
OccursAt(s, sub, i) ==
    /\ i >= 0
    /\ i + Len(sub) <= Len(s)
    /\ SubSeq(s, i + 1, i + Len(sub)) = sub

\* a find that does not look at where to start
find_from_zero(s, sub, start) ==
    LET found == {i \in 0..Len(s) : OccursAt(s, sub, i)}
    IN  IF found = {} THEN -1 ELSE CHOOSE i \in found : \A j \in found : i <= j

\* str.find(sub, start): a negative start counts from the end of s and is 0
\* when that is still negative; the lowest index from there on at which sub
\* stands, or -1
find(s, sub, start) ==
    LET from == IF start >= 0 THEN start
                ELSE IF Len(s) + start >= 0 THEN Len(s) + start ELSE 0
        found == {i \in from..Len(s) : OccursAt(s, sub, i)}
    IN  IF found = {} THEN -1 ELSE CHOOSE i \in found : \A j \in found : i <= j

\* the loop of chunk_document over text_chunks: for each chunk its
\* start_char and end_char; current_pos is where the next search starts
RECURSIVE chunk_spans(_, _, _, _)
chunk_spans(cleaned_content, text_chunks, chunk_overlap, current_pos) ==
    IF text_chunks = <<>> THEN <<>>
    ELSE LET chunk_text == Head(text_chunks)
             at == find(cleaned_content, chunk_text, current_pos)
             start_char == IF at = -1 THEN current_pos ELSE at
             end_char == start_char + Len(chunk_text)
         IN  <<[start_char |-> start_char, end_char |-> end_char]>>
                 \o chunk_spans(cleaned_content, Tail(text_chunks), chunk_overlap,
                                end_char - chunk_overlap)

\* chunk_document is called on a content the splitter cuts into text_chunks
ChunkCall ==
    /\ call.fn = "none"
    /\ \E cleaned_content \in StringsUpTo(MaxContent), chunk_overlap \in 0..MaxOverlap :
        \E n \in 1..MaxChunks :
            \E text_chunks \in [1..n -> StringsUpTo(MaxChunkText)] :
                /\ call' = [fn |-> "chunk_document", content |-> cleaned_content,
                            text_chunks |-> text_chunks, chunk_overlap |-> chunk_overlap,
                            chunks |-> chunk_spans(cleaned_content, text_chunks,
                                                   chunk_overlap, 0)]
                /\ UNCHANGED pipelineVars

ChunkNext ==
    \/ ChunkCall

ChunkSpec == InterfaceInit /\ [][ChunkNext]_vars

(***************************************************************************)
(* C25.  For every pair of consecutive chunks of a document,               *)
(* chunks[i+1].start_char >= chunks[i].end_char - chunk_overlap.           *)
(***************************************************************************)
C25_NextChunkStartsWithinOverlap ==
    call.fn = "chunk_document"
    => \A i \in 1..(Len(call.chunks) - 1) :
           call.chunks[i + 1].start_char >= call.chunks[i].end_char - call.chunk_overlap

\* two chunks, the second of which is found from where the search starts and
\* also stands in the content before that place
C25_SecondChunkAlsoEarlier ==
    /\ call.fn = "chunk_document"
    /\ Len(call.chunks) = 2
    /\ call.chunks[1].end_char - call.chunk_overlap > 0
    /\ OccursAt(call.content, call.text_chunks[2], 0)
    /\ call.chunks[2].start_char > 0
    /\ OccursAt(call.content, call.text_chunks[2], call.chunks[2].start_char)

(***************************************************************************)
(* C26.  The jobs the watcher puts on the queue from its event-delivery    *)
(* thread and the jobs of the bulk scan, in any interleaving with the      *)
(* manager's dequeues, are each dequeued exactly once: every job a         *)
(* producer makes is on its way to the queue, and a job leaves only by a   *)
(* dequeue, which takes one job.                                           *)
(***************************************************************************)
\* the jobs on their way to the manager: in an _add_to_queue task, in a put
\* that waits for room, or on the queue
Waiting == Len(tasks) + Len(putters) + Len(queue)

C26_NoJobLostOrRepeated ==
    [][/\ Dispatched => Waiting' = Waiting + Len(dispatch(Head(events).ev))
       /\ Dequeued => Waiting' = Waiting - 1
       /\ ~Dequeued => Waiting' >= Waiting]_vars

\* the same, for events whose handler runs on the event loop's thread
C26_NoJobLostOnLoopThread ==
    [][/\ (Dispatched /\ Head(events).on_loop)
           => Waiting' = Waiting + Len(dispatch(Head(events).ev))
       /\ Dequeued => Waiting' = Waiting - 1
       /\ ~Dequeued => Waiting' >= Waiting]_vars

(***************************************************************************)
(* C27.  At any time at most one job is in flight: process_file works on   *)
(* at most one job, that job is the one whose extraction the executor is   *)
(* running, and no job leaves the queue while one is in flight, so a job   *)
(* is taken only after the previous job's extraction and index writes are  *)
(* over; in particular a job for the path in flight stays on the queue.    *)
(***************************************************************************)
InFlight == Len(cur)

C27_OneJobInFlight ==
    [][/\ InFlight <= 1
       /\ (InFlight = 1) <=> (workerPc = "extracting")
       /\ (queue # <<>> /\ queue' = Tail(queue)) => InFlight = 0
       /\ (InFlight = 1 /\ ixVars' # ixVars) => InFlight' = 0]_vars

\* a job for the path in flight waits on the queue while the first is extracted
C27_SamePathWaitsBehindJobInFlight ==
    /\ workerPc = "extracting"
    /\ queue # <<>>
    /\ Head(queue).file_path = cur[1].file_path

(***************************************************************************)
(* Stopping, step by step.  The manager is stopped by a call of stop(), by *)
(* a call of stop_enhanced() (an EnhancedIndexingManager's own method), or *)
(* by start() itself, whose `finally` awaits stop(): when the task running *)
(* start() is cancelled by a shutdown signal, which cancels the            *)
(* process_queue task it awaits, and when process_queue returns because    *)
(* somebody else stopped the manager.  `call` keeps, for every such run,   *)
(* the steps it has performed so far, in order.                            *)
(***************************************************************************)
StopWays == {"stop", "stop_enhanced", "start"}

\* stop() up to its await: is_running = False; stop_monitoring().
\* observer.join() raises RuntimeError for an observer thread never started.
stop_begin(way, observer_started) ==
    IF observer_started
    THEN [way |-> way, steps |-> <<"is_running_false", "stop_monitoring">>,
          pc |-> "join_wait"]
    ELSE [way |-> way, steps |-> <<"is_running_false">>, pc |-> "raised"]

\* stop() after the wait for the queue, and what stop_enhanced() adds to it
stop_end(run, enh) ==
    [run EXCEPT !.steps = @ \o <<"queue_wait", "executors_shutdown", "keyword_close">>
                            \o (IF run.way = "stop_enhanced" /\ enh
                                THEN <<"vector_close">> ELSE <<>>),
                !.pc = "closed"]

StopRuns == IF call.fn = "stop" THEN call.runs ELSE <<>>

\* the first stop of the manager
StopCall ==
    /\ call.fn = "none"
    /\ stopPc = "idle"
    /\ \E way \in StopWays :
           /\ way = "stop_enhanced" => enhanced
           /\ way = "start" => workerPc \in {"get", "extracting"}
           /\ workerPc' = IF way = "start" THEN "exited" ELSE workerPc
           /\ call' = [fn |-> "stop", runs |-> <<stop_begin(way, monitoring)>>]
    /\ is_running' = FALSE
    /\ monitoring' = FALSE
    /\ events' = <<>>
    /\ stopPc' = IF monitoring THEN "join_wait" ELSE "raised"
    /\ UNCHANGED <<fs, tasks, putters, nEvents, queueVars, cur, ixVars,
                   bulkVars, enhanced, clock, fsOps, faults>>

\* process_queue has returned after somebody else's stop: start() goes on to
\* its `finally` and stops the manager once more
StartStop ==
    /\ call.fn = "stop"
    /\ Len(call.runs) = 1
    /\ call.runs[1].way # "start"
    /\ workerPc = "exited"
    /\ call' = [call EXCEPT !.runs = Append(@, stop_begin("start", TRUE))]
    /\ is_running' = FALSE
    /\ UNCHANGED <<fs, watchVars, queueVars, monitoring, workerVars, ixVars,
                   bulkVars, stopPc, enhanced, clock, fsOps, faults>>

\* a run's wait for the queue is over, by join() or by the 30 s; it goes on to
\* its end
StopWaitOver ==
    /\ call.fn = "stop"
    /\ \E i \in 1..Len(call.runs) :
           /\ call.runs[i].pc = "join_wait"
           /\ call' = [call EXCEPT !.runs[i] = stop_end(@, enhanced)]
    /\ stopPc' = "closed"
    /\ UNCHANGED <<fs, watchVars, queueVars, is_running, monitoring, workerVars,
                   ixVars, bulkVars, enhanced, clock, fsOps, faults>>

StopNext ==
    \/ BulkIndex
    \/ BulkPut
    \/ BulkJoin
    \/ Start
    \/ DequeueExtract
    \/ FinishJob
    \/ GetTimeout
    \/ StopCall
    \/ StartStop
    \/ StopWaitOver

StopSpec == Init /\ [][StopNext]_vars

(***************************************************************************)
(* C28.  Every stop of the system performs, in this order: the running     *)
(* flag set to false, the watcher stopped, the bounded wait for the queue, *)
(* the worker pools shut down, the keyword index closed and, where there   *)
(* is a vector index, the vector index closed: a run of stop that is over  *)
(* has performed exactly these steps, whichever way it was started.        *)
(***************************************************************************)
StopOrder(enh) ==
    <<"is_running_false", "stop_monitoring", "queue_wait", "executors_shutdown",
      "keyword_close">> \o (IF enh THEN <<"vector_close">> ELSE <<>>)

StopOver(run) == run.pc \in {"closed", "raised"}

C28_StopOrder ==
    \A i \in 1..Len(StopRuns) :
        StopOver(StopRuns[i]) => StopRuns[i].steps = StopOrder(enhanced)

\* the steps a run has performed are always the first steps of that order
C28_StepsNeverOutOfOrder ==
    \A i \in 1..Len(StopRuns) :
        LET steps == StopRuns[i].steps
        IN  /\ Len(steps) <= Len(StopOrder(TRUE))
            /\ steps = SubSeq(StopOrder(TRUE), 1, Len(steps))

\* stop_enhanced() on a started manager performs all of them
C28_StopEnhancedClosesBoth ==
    \E i \in 1..Len(StopRuns) :
        /\ StopRuns[i].way = "stop_enhanced"
        /\ StopRuns[i].steps = StopOrder(TRUE)

(***************************************************************************)
(* C29.  The state of the two indexes after a job is processed does not    *)
(* depend on indexed_files: the job leaves the keyword index and the       *)
(* vector database as it would have left them had the set been empty, as   *)
(* it is after a restart, when the job began.                              *)
(***************************************************************************)
\* what the last job would have made of the state it found, with no path
\* recorded as indexed
AfterRestart ==
    process_file([call.before EXCEPT !.indexed = {}], fs, call.path, call.operation,
                 call.io, enhanced)

SameIndexes(S) == S.kw = kw /\ S.db = VecDb(vmeta, vstore)

C29_IndexedFilesIrrelevant == call.fn = "process_file" => SameIndexes(AfterRestart)

\* the same, for create and delete jobs
C29_CreateAndDeleteIgnoreIndexedFiles ==
    (call.fn = "process_file" /\ call.operation # "update") => SameIndexes(AfterRestart)

\* a create job for a path recorded as indexed, which adds a document as it
\* would have after a restart
C29_CreateOfTrackedPath ==
    /\ call.fn = "process_file"
    /\ call.operation = "create"
    /\ call.path \in call.before.indexed
    /\ call.before.kw # kw
    /\ SameIndexes(AfterRestart)

(***************************************************************************)
(* C30.  A create or update job for a file that has vanished, cannot be    *)
(* read or cannot be hashed adds exactly one to files_failed and changes   *)
(* neither the keyword index nor the vector database.  (process_file       *)
(* catches every exception, so the call always returns.)                   *)
(***************************************************************************)
\* the path's name and directories pass should_index_file's rules
PassesRules(p) == should_index(p, StatOk(0), StatOk(0)) = "true"

\* the last job was a create or update job for such a file: one that is not
\* there when the job starts, or one that is there, passes should_index_file
\* and then vanishes or cannot be read
FileUnavailable ==
    /\ call.fn = "process_file"
    /\ call.operation # "delete"
    /\ IF Exists(fs, call.path)
       THEN should_index_file(fs, call.path) /\ call.io # "none"
       ELSE PassesRules(call.path)

IndexesUntouched == call.before.kw = kw /\ call.before.db = VecDb(vmeta, vstore)

C30_UnavailableFileCountsAsFailed ==
    FileUnavailable =>
        /\ stats.files_failed = call.before.stats.files_failed + 1
        /\ IndexesUntouched

\* what holds for all such jobs: the indexes stay as they were, and the file is
\* counted once, as failed when it was there at the job's start and as skipped
\* when it was not
C30_UnavailableFileCountedOnce ==
    FileUnavailable =>
        /\ IndexesUntouched
        /\ stats.files_processed = call.before.stats.files_processed
        /\ IF Exists(fs, call.path)
           THEN /\ stats.files_failed = call.before.stats.files_failed + 1
                /\ stats.files_skipped = call.before.stats.files_skipped
           ELSE /\ stats.files_failed = call.before.stats.files_failed
                /\ stats.files_skipped = call.before.stats.files_skipped + 1

\* a job for an indexed file that can no longer be read
C30_IndexedFileUnreadable ==
    /\ FileUnavailable
    /\ call.io = "unreadable"
    /\ call.path \in indexed_files
    /\ stats.files_failed = 1

(***************************************************************************)
(* Jobs whose index writes fail.  process_file is called directly, for any *)
(* path and operation, and one write of the job fails: the keyword writer  *)
(* ("kw": add_document, update_document or delete_document returns False)  *)
(* or the insert in the vector index ("embed": add_chunks returns False).   *)
(* `call` keeps the job, the fault and the state the job found.            *)
(***************************************************************************)
process_file_with_fault(S, fsys, p, op, enh, fault) ==
    IF op = "delete"
    THEN IF enh THEN enhanced_process_file_delete(S, p, fault)
         ELSE process_file_delete(S, p, fault)
    ELSE IF ~should_index_file(fsys, p)
         THEN [S EXCEPT !.stats.files_skipped = @ + 1]
    ELSE IF enh THEN _process_file_enhanced(S, p, op, extract_text(fsys, p), fault)
    ELSE process_file_write(S, p, op, extract_text(fsys, p), fault)

FaultyJobCall ==
    /\ CallCount < MaxProcessed
    /\ \E file \in RawPaths, operation \in {"create", "update", "delete"}, fault \in Faults :
        /\ FaultApplies(fault, operation, file, extract_text(fs, file))
        /\ SetIx(process_file_with_fault(Cur, fs, file, operation, enhanced, fault))
        /\ call' = [fn |-> "process_file", n |-> CallCount + 1, path |-> file,
                    operation |-> operation, io |-> "none", fault |-> fault,
                    before |-> Cur, previous |-> BriefJob(call)]
        /\ UNCHANGED <<fs, jobFrame>>

FaultNext == FaultyJobCall

FaultSpec == Init /\ [][FaultNext]_vars

(***************************************************************************)
(* C31.  In the enhanced manager the keyword step and the vector step of   *)
(* one job do not abort each other and neither is retried.  When the       *)
(* keyword write fails, the keyword index stays as it was, the job counts  *)
(* as failed, and the vector step is made as for any job: the path's       *)
(* chunks are the chunks of the text.  When the vector insert fails, the   *)
(* keyword index holds what the keyword write made, the job counts as      *)
(* processed, and the path is left without chunks.                         *)
(***************************************************************************)
\* the last job was a create or update job of the enhanced manager that
\* reached its index writes
EnhancedWrite ==
    /\ call.fn = "process_file"
    /\ enhanced
    /\ call.operation # "delete"
    /\ should_index_file(fs, call.path)

C31_StepsDoNotAbortEachOther ==
    EnhancedWrite =>
        LET content == extract_text(fs, call.path)
            chunks == chunk_document(content, call.path)
            B == call.before
        IN  /\ call.fault = "kw" =>
                /\ kw = B.kw
                /\ VecDb(vmeta, vstore) = vector_write(B.db, call.path, content, "none")
                /\ ChunksOf(vmeta, call.path) = Range(chunks)
                /\ stats.files_failed = B.stats.files_failed + 1
                /\ stats.files_processed = B.stats.files_processed
            /\ call.fault = "embed" =>
                /\ kw = keyword_write(B, call.path, call.operation, content, "none").ix
                /\ BagIn(Document(call.path, content), kw)
                /\ ChunksOf(vmeta, call.path) = {}
                /\ stats.files_processed = B.stats.files_processed + 1
                /\ stats.files_failed = B.stats.files_failed

\* a job whose keyword write failed and whose vector step put the path's
\* first chunks in the vector database
C31_ChunksAddedAfterKeywordFailure ==
    /\ EnhancedWrite
    /\ call.fault = "kw"
    /\ ChunksOf(call.before.db.meta, call.path) = {}
    /\ ChunksOf(vmeta, call.path) # {}

(***************************************************************************)
(* C32.  After a delete job for a path has been processed, the path is not *)
(* in indexed_files, whatever the keyword delete and the vector delete of  *)
(* the job returned.                                                       *)
(***************************************************************************)
DeleteJobDone == call.fn = "process_file" /\ call.operation = "delete"

C32_DeletedPathNotTracked == DeleteJobDone => call.path \notin indexed_files

\* what the keyword delete of the last delete job returned
keyword_success == delete_document(call.before.kw, call.path, call.fault = "kw").ok

\* the same, for the jobs whose keyword delete returned True
C32_DeletedPathNotTrackedOnSuccess ==
    (DeleteJobDone /\ keyword_success) => call.path \notin indexed_files

\* a delete job that took its path out of indexed_files
C32_TrackedPathDeleted ==
    /\ DeleteJobDone
    /\ call.path \in call.before.indexed
    /\ call.path \notin indexed_files

(***************************************************************************)
(* C33.  For every file the process-pool path (extract_text_standalone)    *)
(* and the thread-pool path (TextExtractor.extract_text) return the same   *)
(* text and the same media type.                                           *)
(***************************************************************************)
\* what the two paths return for the arguments of the last extraction
InProcessPool ==
    extract_text_standalone(call.file, call.mime_type, call.magic_raises, call.missing,
                            call.parser_fails)
InThreadPool ==
    TextExtractor_extract_text(call.file, call.mime_type, call.magic_raises, call.missing,
                               call.parser_fails)

SameExtraction ==
    /\ InProcessPool.text = InThreadPool.text
    /\ InProcessPool.mime_type = InThreadPool.mime_type

C33_PoolsExtractAlike == call.fn = "extract_text" => SameExtraction

\* the same, for files that are no notebooks and with every parser installed
C33_PoolsExtractAlikeWithParsers ==
    (call.fn = "extract_text" /\ ~endswith_ipynb(call.file) /\ call.missing = {})
        => SameExtraction

\* a text file read in the process pool as the thread pool would read it
C33_TextReadInProcessPool ==
    /\ call.fn = "extract_text"
    /\ call.use_process_pool
    /\ call.mime_type \in TextTypes
    /\ call.result.text = "content"
    /\ call.result = InThreadPool

(***************************************************************************)
(* indexing/logger.py: the session metrics.  The manager, its              *)
(* WhooshIndexer and its TextExtractor share one IndexingLogger.  What one *)
(* create job adds to files_processed and files_failed of the metrics:     *)
(* SmartFileIndexer.process_file calls log_file_processed after the        *)
(* keyword write whatever it returned, _process_file_enhanced never calls  *)
(* it, and the WhooshIndexer calls log_file_failed when its writer raises. *)
(***************************************************************************)
NoMetrics == [files_processed |-> 0, files_failed |-> 0]

log_job(metrics, fsys, p, enh, fault) ==
    IF ~should_index_file(fsys, p) THEN metrics
    ELSE [files_processed |-> metrics.files_processed + (IF enh THEN 0 ELSE 1),
          files_failed |-> metrics.files_failed + (IF fault = "kw" THEN 1 ELSE 0)]

\* bulk_index from start_session to the summary: the create jobs of all_files
\* are processed in the order they were put; the keyword writer fails in the
\* job numbered fault_at, if any
RECURSIVE scan_jobs(_, _, _, _, _, _)
scan_jobs(S, metrics, fsys, files, enh, fault_at) ==
    IF files = <<>> THEN [state |-> S, metrics |-> metrics]
    ELSE LET fault == IF fault_at = 1 THEN "kw" ELSE "none"
         IN  scan_jobs(process_file_with_fault(S, fsys, Head(files), "create", enh, fault),
                       log_job(metrics, fsys, Head(files), enh, fault),
                       fsys, Tail(files), enh, fault_at - 1)

\* a bulk scan on a running manager with no other job: bulk_index(roots) from
\* its call to its return
BulkScanCall ==
    /\ CallCount < MaxProcessed
    /\ \E roots \in RootLists :
        LET found == all_files(fs, roots)
        IN  \E fault_at \in 0..Len(found) :
                LET r == scan_jobs(Cur, NoMetrics, fs, found, enhanced, fault_at)
                IN  /\ SetIx(r.state)
                    /\ call' = [fn |-> "bulk_index", n |-> CallCount + 1, roots |-> roots,
                                found |-> Len(found), fault_at |-> fault_at,
                                summary |-> r.metrics, before |-> Cur.stats]
    /\ UNCHANGED <<fs, jobFrame>>

ScanNext == BulkScanCall

ScanSpec == Init /\ [][ScanNext]_vars

(***************************************************************************)
(* C34.  The session summary of a bulk scan reports the files_processed    *)
(* and files_failed that the manager's own counters gained in that scan,   *)
(* for the basic and for the enhanced manager.                             *)
(***************************************************************************)
\* a bulk scan found files, so that it waited for the queue and made a summary
SummaryEmitted == call.fn = "bulk_index" /\ call.found > 0

SummaryAgrees ==
    /\ call.summary.files_processed = stats.files_processed - call.before.files_processed
    /\ call.summary.files_failed = stats.files_failed - call.before.files_failed

C34_SummaryMatchesCounters == SummaryEmitted => SummaryAgrees

\* the same, for the basic manager when no index write fails
C34_BasicSummaryMatchesCounters ==
    (SummaryEmitted /\ ~enhanced /\ call.fault_at = 0) => SummaryAgrees

\* a second scan of the basic manager whose summary agrees with the counters
C34_SecondScanSummarised ==
    /\ SummaryEmitted
    /\ ~enhanced
    /\ call.before.files_processed > 0
    /\ call.summary.files_processed > 0
    /\ SummaryAgrees

(***************************************************************************)
(* C35.  Processing a create or update job adds one to exactly one of the  *)
(* counters files_processed, files_skipped, files_failed and leaves the    *)
(* other two alone; processing a delete job changes none of them.  This    *)
(* holds for both managers, also when an index write fails.                *)
(***************************************************************************)
\* how much the last job added to each counter
Gained ==
    [c \in {"files_processed", "files_skipped", "files_failed"} |->
        stats[c] - call.before.stats[c]]

ExactlyOneCounted ==
    \E c \in DOMAIN Gained :
        /\ Gained[c] = 1
        /\ \A d \in DOMAIN Gained \ {c} : Gained[d] = 0

JobCounted ==
    IF call.operation = "delete" THEN stats = call.before.stats ELSE ExactlyOneCounted

C35_OneCounterPerJob == call.fn = "process_file" => JobCounted

\* the same, for the enhanced manager
C35_OneCounterPerEnhancedJob == (call.fn = "process_file" /\ enhanced) => JobCounted

\* a job of the enhanced manager whose keyword write failed, counted as failed
C35_FailedWriteCounted ==
    /\ EnhancedWrite
    /\ call.fault = "kw"
    /\ Gained = [files_processed |-> 0, files_skipped |-> 0, files_failed |-> 1]

(***************************************************************************)
(* C36.  Once stop() has closed the indexes, no job writes to the keyword  *)
(* index or to the vector database: a job in flight when the wait for the  *)
(* queue ended does not go on to its index writes.                         *)
(***************************************************************************)
IndexesClosed == stopPc = "closed"

C36_NoWriteAfterClose ==
    [][IndexesClosed => <<kw, vmeta, vstore>>' = <<kw, vmeta, vstore>>]_vars

\* stop() closed the indexes of a manager that had indexed a file and had no
\* job left
C36_ClosedWithNothingInFlight ==
    /\ IndexesClosed
    /\ unfinished = 0
    /\ workerPc = "exited"
    /\ BagCardinality(kw) > 0

(***************************************************************************)
(* The running manager: start() has been or will be called and stop() is   *)
(* not; bulk scans and watcher events produce jobs.  The event loop runs   *)
(* every coroutine that can run: process_queue takes a step whenever it    *)
(* has one, the _add_to_queue tasks run, and a join() whose queue has      *)
(* drained returns.                                                        *)
(***************************************************************************)
\* a step of process_queue, told by what it does to the queue and to the
\* worker: it takes the head of the queue (DequeueDelete, DequeueSkip,
\* DequeueExtract), or it ends the job in flight (FinishJob)
WorkerStep ==
    \/ /\ workerPc = "get"
       /\ queue # <<>>
       /\ queue' = Tail(queue)
       /\ workerPc' \in {"get", "extracting", "exited"}
    \/ /\ workerPc = "extracting"
       /\ queue' = queue
       /\ workerPc' \in {"get", "exited"}

RunNext ==
    \/ BulkIndex
    \/ BulkPut
    \/ BulkJoin
    \/ Start
    \/ EventArrives
    \/ Dispatch
    \/ TaskRun
    \/ PutterWake
    \/ DequeueDelete
    \/ DequeueSkip
    \/ DequeueExtract
    \/ FinishJob

RunSpec ==
    /\ Init
    /\ [][RunNext]_vars
    /\ WF_<<workerPc, queue>>(WorkerStep)
    /\ WF_vars(BulkJoin)
    /\ WF_vars(BulkPut)

(***************************************************************************)
(* C37.  While the manager is running, every job placed on the queue is    *)
(* eventually taken and processed, whatever jobs are put behind it: the    *)
(* queue gives its jobs out in the order they were put, so a job only      *)
(* moves forward.  Every job taken is marked done exactly once: the        *)
(* queue's count of unfinished tasks is the number of jobs waiting or in   *)
(* flight, and a join on the queue of a running manager returns.           *)
(***************************************************************************)
JobIds == 0..(MaxJobs - 1)

\* the job created at time t waits on the queue / is being processed
Queued(t) == \E i \in 1..Len(queue) : queue[i].timestamp = t
Processing(t) == cur # <<>> /\ cur[1].timestamp = t

\* the queue changes only by giving out its head and by taking jobs at its end
FirstInFirstOut ==
    \/ queue' = queue
    \/ queue # <<>> /\ queue' = Tail(queue)
    \/ Len(queue') > Len(queue) /\ SubSeq(queue', 1, Len(queue)) = queue

C37_EveryJobProcessedAndDoneOnce ==
    /\ [](unfinished = Len(queue) + Len(cur))
    /\ [][FirstInFirstOut]_vars
    /\ \A t \in JobIds : (is_running /\ Queued(t)) ~> (~Queued(t) /\ ~Processing(t))
    /\ (is_running /\ bulkPc = "join") ~> (bulkPc = "done")

\* a watcher job was put behind a bulk-scan job, which stays at the head of the
\* queue of the running manager
C37_WatcherJobBehindBulkJob ==
    /\ is_running
    /\ Len(queue) = 2
    /\ queue[1].priority = LOW
    /\ queue[2].priority = HIGH

(***************************************************************************)
(* C38.  After any sequence of add_chunks and delete_document_chunks       *)
(* calls, calls that fail part-way included, the chunk ids held in the     *)
(* embedding store are the chunk ids held in the chunk_metadata table.     *)
(***************************************************************************)
ChunkIds(rows) == {r.chunk_id : r \in rows}

StoresAgree == ChunkIds(vstore) = ChunkIds(vmeta)

C38_StoresHoldSameChunks == StoresAgree

\* a call in which no store operation fails keeps the two stores in agreement
C38_CallsWithoutFailureKeepAgreement ==
    [][(StoresAgree /\ (call'.fn = "add_chunks" => call'.failure = NoFailure))
          => StoresAgree']_vars

\* the chunks of one path were deleted and the chunks of another are in both
\* stores
C38_OnePathLeftInBothStores ==
    /\ call.fn = "delete"
    /\ call.deleted_chunks > 0
    /\ vmeta # {}
    /\ StoresAgree

(***************************************************************************)
(* C39.  Each path appears at most once in a hybrid result list, and when  *)
(* the semantic stream holds several chunks of a path, the result of that  *)
(* path carries the semantic score and the chunk id of the highest-scoring *)
(* of them.                                                                *)
(***************************************************************************)
\* the semantic stream of the last hybrid search
SemanticStream ==
    IF call.available
    THEN _semantic_search_only(call.hits, call.nodes, call.available, call.limit * 2)
    ELSE <<>>

ChunksInStream(path) == {i \in 1..Len(SemanticStream) : SemanticStream[i].path = path}

EachPathOnce(results) ==
    \A i, j \in 1..Len(results) : results[i].path = results[j].path => i = j

\* the result carries the score and the id of a chunk that no chunk of its
\* path in the stream outscores
CarriesBestChunk(result) ==
    ChunksInStream(result.path) # {} =>
        \E i \in ChunksInStream(result.path) :
            /\ \A j \in ChunksInStream(result.path) :
                   SemanticStream[j].semantic_score <= SemanticStream[i].semantic_score
            /\ result.semantic_score = SemanticStream[i].semantic_score
            /\ result.chunk_id = SemanticStream[i].chunk_id

C39_OnePerPathWithBestChunk ==
    Searched("hybrid") =>
        /\ EachPathOnce(call.results)
        /\ \A i \in 1..Len(call.results) : CarriesBestChunk(call.results[i])

\* what holds: each path once, with the chunk that stands last of its path in
\* the stream
C39_OnePerPathWithLastChunk ==
    Searched("hybrid") =>
        /\ EachPathOnce(call.results)
        /\ \A i \in 1..Len(call.results) :
               LET chunks == ChunksInStream(call.results[i].path)
                   last == CHOOSE k \in chunks : \A j \in chunks : j <= k
               IN  chunks # {} =>
                       /\ call.results[i].semantic_score = SemanticStream[last].semantic_score
                       /\ call.results[i].chunk_id = SemanticStream[last].chunk_id

\* a hybrid search whose streams share a path and whose semantic stream holds
\* two paths: the shared path comes out once, as a hybrid result
C39_SharedPathMergedOnce ==
    /\ Searched("hybrid")
    /\ Len(SemanticStream) = 2
    /\ SemanticStream[1].path # SemanticStream[2].path
    /\ \E i \in 1..Len(call.results) : call.results[i].search_type = "hybrid"
    /\ EachPathOnce(call.results)

(***************************************************************************)
(* C40.  For every indexed file the path of its keyword document, the      *)
(* source_path of its vector chunks and its entry in indexed_files are the *)
(* string a job for the file carries, so that a later update or delete job *)
(* for it addresses the entries the earlier job made: after a create or    *)
(* update job has indexed its file, the keyword index holds a document     *)
(* under the job's path, the path is in indexed_files and, in the enhanced *)
(* manager, the chunks of the file stand under that path; a delete job     *)
(* with the same path then leaves none of them.                            *)
(***************************************************************************)
\* the last job was a create or update job that indexed its file
FileIndexed ==
    /\ call.fn = "process_file"
    /\ call.operation # "delete"
    /\ stats.files_processed = call.before.stats.files_processed + 1

\* the three keys the job left are the job's path
SameKeyEverywhere(path) ==
    /\ BagCardinality(DocsOf(kw, path)) > 0
    /\ path \in indexed_files
    /\ enhanced => ChunksOf(vmeta, path) # {}

\* what a delete job with that path would leave
AfterDeleteOf(path) == process_file(Cur, fs, path, "delete", "none", enhanced)

DeleteAddressesAll(path) ==
    /\ BagCardinality(DocsOf(AfterDeleteOf(path).kw, Resolve(path))) = 0
    /\ ChunksOf(AfterDeleteOf(path).db.meta, path) = {}
    /\ path \notin AfterDeleteOf(path).indexed

C40_OnePathStringForAllKeys ==
    FileIndexed => (SameKeyEverywhere(call.path) /\ DeleteAddressesAll(call.path))

\* the same, for jobs that carry the resolved path of their file
C40_OnePathStringForResolvedPaths ==
    (FileIndexed /\ Resolve(call.path) = call.path)
        => (SameKeyEverywhere(call.path) /\ DeleteAddressesAll(call.path))

\* the enhanced manager indexed a file under its resolved path in both indexes
C40_ResolvedPathInBothIndexes ==
    /\ FileIndexed
    /\ enhanced
    /\ Resolve(call.path) = call.path
    /\ SameKeyEverywhere(call.path)
    /\ BagCardinality(kw) = 1

=============================================================================
